---- MODULE Spec2Model ----
(***************************************************************************)
(* Gaze-event detection engine of huji-hcnl/EyeTrackingAlgroithms.         *)
(*                                                                         *)
(* Arrays are TLA+ sequences; the source's 0-based index i is element      *)
(* i + 1 of the sequence.  Index runs returned by get_chunk_indices hold   *)
(* the source's 0-based indices.                                           *)
(*                                                                         *)
(* Labels are the IntEnum values of GazeEventTypeEnum.  A float NaN is     *)
(* the out-of-band value NaN; every arithmetic operator tests for it       *)
(* before computing.  A sampling rate is the exact rational <<num, den>>   *)
(* (the code's 1000 / median), with <<0, 0>> for NaN.                      *)
(***************************************************************************)
EXTENDS Integers, Sequences, FiniteSets, TLC

\* ------------------------------------------------------------------ bounds
MaxLen == 5          \* longest recording over all of Points
MaxPatternLen == 7   \* longest recording over valid/missing patterns
MaxArrLen == 6       \* longest label array fed to the run-length utilities
MaxBinoLen == 3      \* longest recording given to detect_candidates_binocular
MaxTableLen == 4     \* longest sample table given to create_gaze_events
MaxVelLen == 5  \* longest array given to _calculate_axial_velocity
MaxIdtLen == 5  \* longest input of SpecIDT
MaxNhLen == 6  \* longest input of SpecNH
MaxNhPeaks == 2  \* most velocity peaks of SpecNH
MaxConcLen == 4  \* samples of each trial of SpecConcurrent
MaxOps == 3          \* most constructor and set_*_duration calls in a row

\* ------------------------------------------------- GazeEventTypeEnum values
UNDEFINED == 0
FIXATION == 1
SACCADE == 2
PSO == 3
SMOOTH_PURSUIT == 4
BLINK == 5

NaN == 9999          \* stands for float('nan') in coordinate arrays
Inf == 9998          \* stands for float('inf') in timestamp arrays
NaNRate == <<0, 0>>  \* self._sr = np.nan

MILLISECONDS_PER_SECOND == 1000
MINIMUM_TIME_WITHIN_EVENT == 5
MINIMUM_TIME_BETWEEN_IDENTICAL_EVENTS == 5

\* ---------------------------------------------------------- small helpers
\* arr[i] of the source, i 0-based
At(arr, i) == arr[i + 1]

\* the index array [lo, lo+1, ..., hi-1]  (np.arange slice indices[lo:hi])
IndexRun(lo, hi) == [k \in 1..(IF hi > lo THEN hi - lo ELSE 0) |-> lo + k - 1]

RECURSIVE SortedSeq(_)
\* the elements of a finite set of integers in ascending order
SortedSeq(S) ==
    IF S = {} THEN <<>>
    ELSE LET lo == CHOOSE a \in S : \A b \in S : a <= b
         IN <<lo>> \o SortedSeq(S \ {lo})

\* Python round() of the non-negative rational p / q: half goes to even
PyRound(p, q) ==
    LET fl == p \div q
        r2 == 2 * (p % q)
    IN IF r2 < q THEN fl
       ELSE IF r2 > q THEN fl + 1
       ELSE IF fl % 2 = 0 THEN fl ELSE fl + 1

\* ------------------------------------------------- Utils/array_utils.py
\* split_on without the + 1: np.nonzero(np.diff(arr))[0], each cut one index early
split_on_early(arr) == SortedSeq({j - 1 : j \in {i \in 1..(Len(arr) - 1) : arr[i + 1] - arr[i] # 0}})

\* split_on = np.nonzero(np.diff(arr))[0] + 1
split_on(arr) == SortedSeq({j \in 1..(Len(arr) - 1) : arr[j + 1] - arr[j] # 0})

\* np.split(indices, split_on): one sub-array per section, len(split_on) + 1
\* sections, also when the array is empty
get_chunk_indices(arr) ==
    LET div_points == <<0>> \o split_on(arr) \o <<Len(arr)>>
    IN [s \in 1..(Len(div_points) - 1) |-> IndexRun(div_points[s], div_points[s + 1])]

\* ------------------------------------------ Detectors/BaseDetector.py
\* round(self._MINIMUM_TIME_WITHIN_EVENT * self._sr / 1000); round(nan) is a
\* ValueError, reported here as -1
_minimum_samples_within_event(sr) ==
    IF sr[2] = 0 THEN -1
    ELSE PyRound(MINIMUM_TIME_WITHIN_EVENT * sr[1], MILLISECONDS_PER_SECOND * sr[2])

_minimum_samples_between_identical_events(sr) ==
    IF sr[2] = 0 THEN -1
    ELSE PyRound(MINIMUM_TIME_BETWEEN_IDENTICAL_EVENTS * sr[1], MILLISECONDS_PER_SECOND * sr[2])

\* arr_copy[chunk] = value
FillChunk(arr, chunk, value) ==
    [k \in 1..Len(arr) |-> IF \E c \in 1..Len(chunk) : chunk[c] = k - 1 THEN value ELSE arr[k]]

RECURSIVE SetShortLoop(_, _, _, _)
\* the for-loop of _set_short_chunks_as_undefined from chunk number c on
SetShortLoop(arr_copy, chunk_indices, c, m) ==
    IF c > Len(chunk_indices) THEN arr_copy
    ELSE IF Len(chunk_indices[c]) < m
         THEN SetShortLoop(FillChunk(arr_copy, chunk_indices[c], UNDEFINED), chunk_indices, c + 1, m)
         ELSE SetShortLoop(arr_copy, chunk_indices, c + 1, m)

\* the suppression with the length test not strict: a chunk of exactly the
\* minimum length is overwritten too
_set_short_or_equal_chunks_as_undefined(arr, sr) ==
    SetShortLoop(arr, get_chunk_indices(arr), 1, _minimum_samples_within_event(sr) + 1)

\* the suppression writing one index too low: arr_copy[chunk_idx - 1] = UNDEFINED
_set_short_chunks_shifted_as_undefined(arr, sr) ==
    LET chunk_indices == get_chunk_indices(arr)
        shifted == [c \in 1..Len(chunk_indices) |->
                       [j \in 1..Len(chunk_indices[c]) |-> chunk_indices[c][j] - 1]]
    IN SetShortLoop(arr, shifted, 1, _minimum_samples_within_event(sr))

\* the suppression with the threshold one too low: chunks of m - 1 samples stay
_set_shorter_chunks_as_undefined(arr, sr) ==
    SetShortLoop(arr, get_chunk_indices(arr), 1, _minimum_samples_within_event(sr) - 1)

\* chunks of the input shorter than the minimum become UNDEFINED
_set_short_chunks_as_undefined(arr, sr) ==
    SetShortLoop(arr, get_chunk_indices(arr), 1, _minimum_samples_within_event(sr))

\* The loop body runs at least once (get_chunk_indices never returns an empty
\* list) and evaluates the minimum, so a NaN sampling rate always raises
\* ValueError
SetShortRaises(arr, sr) == _minimum_samples_within_event(sr) < 0

RECURSIVE MergeLoop(_, _, _, _, _)
\* the for-loop of _merge_proximal_chunks_of_identical_values from chunk
\* number i on (i is 1-based here, the source's i is i - 1); the labels of the
\* middle, left and right chunks are read from arr_copy, the array being
\* written
MergeLoop(arr_copy, chunk_indices, i, m, allow_short_chunks_of) ==
    IF i > Len(chunk_indices) THEN arr_copy
    ELSE IF i = 1 \/ i = Len(chunk_indices)
         THEN MergeLoop(arr_copy, chunk_indices, i + 1, m, allow_short_chunks_of)
    ELSE IF Len(chunk_indices[i]) >= m
         THEN MergeLoop(arr_copy, chunk_indices, i + 1, m, allow_short_chunks_of)
    ELSE IF At(arr_copy, chunk_indices[i][1]) \in allow_short_chunks_of
         THEN MergeLoop(arr_copy, chunk_indices, i + 1, m, allow_short_chunks_of)
    ELSE IF At(arr_copy, chunk_indices[i - 1][1]) # At(arr_copy, chunk_indices[i + 1][1])
         THEN MergeLoop(arr_copy, chunk_indices, i + 1, m, allow_short_chunks_of)
    ELSE MergeLoop(FillChunk(arr_copy, chunk_indices[i], At(arr_copy, chunk_indices[i - 1][1])),
                   chunk_indices, i + 1, m, allow_short_chunks_of)

\* the merge with the length test off by one: a chunk of m - 1 samples counts
\* as long enough
_merge_proximal_chunks_off_by_one(arr, sr, allow_short_chunks_of) ==
    MergeLoop(arr, get_chunk_indices(arr), 1,
              _minimum_samples_between_identical_events(sr) - 1, allow_short_chunks_of)

_merge_proximal_chunks_of_identical_values(arr, sr, allow_short_chunks_of) ==
    MergeLoop(arr, get_chunk_indices(arr), 1,
              _minimum_samples_between_identical_events(sr), allow_short_chunks_of)

\* The minimum is only evaluated for a chunk that is neither first nor last,
\* so a NaN sampling rate raises ValueError only when the input has three
\* chunks or more
MergeRaises(arr, sr) ==
    Len(get_chunk_indices(arr)) >= 3 /\ _minimum_samples_between_identical_events(sr) < 0

\* np.full_like(x, GazeEventTypeEnum.UNDEFINED)
FullUndefined(x) == [k \in 1..Len(x) |-> UNDEFINED]

\* BaseDetector._verify_inputs on 1-D arrays: the three lengths must agree
BaseVerifyFails(t, x, y) == Len(t) # Len(x) \/ Len(t) # Len(y) \/ Len(x) # Len(y)

\* np.diff(ms)
Diff(ms) == [k \in 1..(IF Len(ms) > 0 THEN Len(ms) - 1 ELSE 0) |-> ms[k + 1] - ms[k]]

RECURSIVE InsertSorted(_, _)
InsertSorted(v, sorted) ==
    IF sorted = <<>> THEN <<v>>
    ELSE IF v <= Head(sorted) THEN <<v>> \o sorted
    ELSE <<Head(sorted)>> \o InsertSorted(v, Tail(sorted))

RECURSIVE SortAscending(_)
\* the values of a sequence in ascending order, duplicates kept
SortAscending(seq) == IF seq = <<>> THEN <<>> ELSE InsertSorted(Head(seq), SortAscending(Tail(seq)))

\* twice np.median of a non-empty sequence of integers (the mean of the two
\* middle values when the count is even), kept doubled to stay an integer
Median2(seq) ==
    LET srt == SortAscending(seq)
        n == Len(srt)
    IN IF n % 2 = 1 THEN 2 * srt[(n + 1) \div 2]
       ELSE srt[n \div 2] + srt[n \div 2 + 1]

\* cnst.MILLISECONDS_PER_SECOND / np.median(np.diff(ms)) as a rational
SamplingRateOf(ms) == <<2 * MILLISECONDS_PER_SECOND, Median2(Diff(ms))>>

\* outcome of BaseDetector._calculate_sampling_rate: fewer than two timestamps
\* raise ValueError; a median difference of 0 gives an infinite rate, which
\* raises RuntimeError
_calculate_sampling_rate(ms) ==
    IF Len(ms) < 2 THEN [exc |-> "ValueError", sr |-> NaNRate]
    ELSE IF Median2(Diff(ms)) = 0 THEN [exc |-> "RuntimeError", sr |-> NaNRate]
    ELSE [exc |-> "none", sr |-> SamplingRateOf(ms)]

\* BaseDetector._is_missing_value: isnan when the sentinel is NaN, equality
\* with the sentinel otherwise
_is_missing_value(missing_value, value) ==
    IF missing_value = NaN THEN value = NaN ELSE value = missing_value

\* candidates_copy[x_missing & y_missing] = BLINK: only samples missing in both
\* coordinates
MarkMissingInBoth(missing_value, x, y, candidates) ==
    [k \in 1..Len(candidates) |->
        IF _is_missing_value(missing_value, x[k]) /\ _is_missing_value(missing_value, y[k])
        THEN BLINK ELSE candidates[k]]

\* candidates_copy[x_missing | y_missing] = BLINK
MarkMissing(missing_value, x, y, candidates) ==
    [k \in 1..Len(candidates) |->
        IF _is_missing_value(missing_value, x[k]) \/ _is_missing_value(missing_value, y[k])
        THEN BLINK ELSE candidates[k]]

\* round(expand_blink_by_ms * self._sr / 1000)
expand_blink_by_samples(expand_blink_by_ms, sr) ==
    PyRound(expand_blink_by_ms * sr[1], MILLISECONDS_PER_SECOND * sr[2])

\* the expansion loop: every index that was BLINK before the loop paints the
\* slice [max(0, idx - k) : min(n, idx + k)], whose right end is exclusive
ExpandBlinks(candidates_copy, k) ==
    LET n == Len(candidates_copy)
        blink_indices == {b \in 0..(n - 1) : At(candidates_copy, b) = BLINK}
        Max0(v) == IF v < 0 THEN 0 ELSE v
        MinN(v) == IF v > n THEN n ELSE v
    IN [j \in 1..n |->
          IF \E b \in blink_indices : Max0(b - k) <= j - 1 /\ j - 1 < MinN(b + k)
          THEN BLINK ELSE candidates_copy[j]]

\* the label array returned by BaseDetector._identify_blink_candidates
BlinkCandidates(missing_value, x, y, candidates, expand_blink_by_ms, sr) ==
    LET marked == MarkMissing(missing_value, x, y, candidates)
        merged == _merge_proximal_chunks_of_identical_values(
                      _set_short_chunks_as_undefined(marked, sr), sr, {})
    IN IF expand_blink_by_ms > 0
       THEN ExpandBlinks(merged, expand_blink_by_samples(expand_blink_by_ms, sr))
       ELSE merged

\* x_copy[candidates_copy == BLINK] = np.nan
MaskBlinks(x, candidates_copy) ==
    [k \in 1..Len(x) |-> IF candidates_copy[k] = BLINK THEN NaN ELSE x[k]]

\* names of the parameters of detect_candidates_monocular that have no default
MonocularRequired == {"t", "x", "y"}

\* keywords detect_candidates_binocular passes to detect_candidates_monocular
BinocularPasses == {"x", "y", "expand_blink_by_ms"}

\* Python binds a call only when every parameter without a default is given;
\* otherwise the call raises TypeError before the body runs
MonocularCallBinds(keywords) == MonocularRequired \subseteq keywords

\* str.lower() on the values used here
Lower(s) == CASE s = "Both" -> "both" [] s = "OR" -> "or" [] s = "LEFT" -> "left" [] OTHER -> s

\* [l if l == r else UNDEFINED for l, r in zip(left, right)]
FuseBoth(left, right) ==
    [i \in 1..Len(left) |-> IF left[i] = right[i] THEN left[i] ELSE UNDEFINED]

\* [l or r for l, r in zip(left, right)]: l when it is truthy (not 0), else r
FuseEither(left, right) ==
    [i \in 1..Len(left) |-> IF left[i] # UNDEFINED THEN left[i] ELSE right[i]]

\* detect_candidates_binocular from the line after the two monocular calls
BinocularFuse(left_candidates, right_candidates, detect_by) ==
    LET lowered == Lower(detect_by)
    IN IF lowered = "left" THEN [exc |-> "none", out |-> left_candidates]
       ELSE IF lowered = "right" THEN [exc |-> "none", out |-> right_candidates]
       ELSE IF Len(left_candidates) # Len(right_candidates)
       THEN [exc |-> "AssertionError", out |-> <<>>]
       ELSE IF lowered \in {"both", "and"}
       THEN [exc |-> "none", out |-> FuseBoth(left_candidates, right_candidates)]
       ELSE IF lowered \in {"either", "or"}
       THEN [exc |-> "none", out |-> FuseEither(left_candidates, right_candidates)]
       ELSE [exc |-> "ValueError", out |-> <<>>]

\* ------------------------------------------ Detectors/IVTDetector.py
\* np.power(diff_x, 2) + np.power(diff_y, 2) per pair of neighbours, NaN when a
\* coordinate is NaN; the velocity is its square root halved
SquaredStep(x, y) ==
    [k \in 1..(IF Len(x) > 0 THEN Len(x) - 1 ELSE 0) |->
        IF x[k] = NaN \/ x[k + 1] = NaN \/ y[k] = NaN \/ y[k + 1] = NaN THEN NaN
        ELSE (x[k + 1] - x[k]) * (x[k + 1] - x[k]) + (y[k + 1] - y[k]) * (y[k + 1] - y[k])]

\* IVTDetector._identify_gaze_event_candidates.  The velocity array has one
\* element less than the label array; numpy refuses a boolean index whose
\* length differs from the indexed array's (IndexError).  two_thr is twice the
\* velocity threshold: sqrt(q) / 2 < thr  iff  q < (2 thr)^2.
IVT_identify_gaze_event_candidates(x, y, candidates, two_thr) ==
    LET q == SquaredStep(x, y)
    IN IF Len(q) # Len(candidates) THEN [exc |-> "IndexError", cands |-> candidates]
       ELSE [exc |-> "none",
             cands |-> [k \in 1..Len(candidates) |->
                          IF q[k] = NaN THEN candidates[k]
                          ELSE IF q[k] < two_thr * two_thr THEN FIXATION ELSE SACCADE]]

\* ------------------------------------------ Detectors/IDTDetector.py
RECURSIVE PyMaxFrom(_, _, _)
\* Python's max(): the running maximum is replaced only by an item that
\* compares greater, so a NaN in first position stays and a later NaN is skipped
PyMaxFrom(seq, k, best) ==
    IF k > Len(seq) THEN best
    ELSE IF best # NaN /\ seq[k] # NaN /\ seq[k] > best THEN PyMaxFrom(seq, k + 1, seq[k])
    ELSE PyMaxFrom(seq, k + 1, best)

RECURSIVE PyMinFrom(_, _, _)
PyMinFrom(seq, k, best) ==
    IF k > Len(seq) THEN best
    ELSE IF best # NaN /\ seq[k] # NaN /\ seq[k] < best THEN PyMinFrom(seq, k + 1, seq[k])
    ELSE PyMinFrom(seq, k + 1, best)

\* x[window_start : window_end + 1]
Window(x, window_start, window_end) ==
    [k \in 1..(IF window_end >= window_start THEN window_end - window_start + 1 ELSE 0) |->
        At(x, window_start + k - 1)]

\* IDTDetector._calculate_dispersion on a non-empty window; NaN when one of
\* the four extremes is NaN
_calculate_dispersion(x, y, window_start, window_end) ==
    LET hw == Window(x, window_start, window_end)
        vw == Window(y, window_start, window_end)
        hmax == PyMaxFrom(hw, 2, hw[1])
        hmin == PyMinFrom(hw, 2, hw[1])
        vmax == PyMaxFrom(vw, 2, vw[1])
        vmin == PyMinFrom(vw, 2, vw[1])
    IN IF hmax = NaN \/ hmin = NaN \/ vmax = NaN \/ vmin = NaN THEN NaN
       ELSE (hmax - hmin) + (vmax - vmin)

\* candidates_copy[lo : hi] = value
FillSlice(arr, lo, hi, value) ==
    [k \in 1..Len(arr) |-> IF lo <= k - 1 /\ k - 1 < hi THEN value ELSE arr[k]]

RECURSIVE IDTLoop(_, _, _, _, _, _, _, _)
\* the while-loop of IDTDetector._identify_gaze_event_candidates and the
\* labelling of the last window after it; max() of an empty window raises
\* ValueError
IDTLoop(x, y, candidates_copy, window_start_idx, window_end_idx, fixation_flag, window_size, threshold) ==
    IF window_end_idx >= Len(x)
    THEN [exc |-> "none",
          cands |-> FillSlice(candidates_copy, window_start_idx, window_end_idx,
                              IF fixation_flag THEN FIXATION ELSE SACCADE)]
    ELSE IF window_end_idx < window_start_idx
    THEN [exc |-> "ValueError", cands |-> candidates_copy]
    ELSE LET dispersion == _calculate_dispersion(x, y, window_start_idx, window_end_idx)
         IN IF dispersion # NaN /\ dispersion < threshold
            THEN IDTLoop(x, y, candidates_copy, window_start_idx, window_end_idx + 1, TRUE,
                         window_size, threshold)
            ELSE IF fixation_flag
            THEN IDTLoop(x, y, FillSlice(candidates_copy, window_start_idx, window_end_idx, FIXATION),
                         window_end_idx, window_end_idx + window_size - 1, FALSE,
                         window_size, threshold)
            ELSE IDTLoop(x, y, FillSlice(candidates_copy, window_start_idx, window_start_idx + 1, SACCADE),
                         window_start_idx + 1, window_end_idx + 1, FALSE,
                         window_size, threshold)

\* one iteration with dispersion <= threshold where the source has <
IDTIterationAtOrBelow(x, y, candidates_copy, window_start_idx, window_end_idx, fixation_flag, window_size, threshold) ==
    IF window_end_idx < window_start_idx
    THEN [exc |-> "ValueError", cands |-> candidates_copy, start |-> window_start_idx,
          end |-> window_end_idx, flag |-> fixation_flag]
    ELSE LET dispersion == _calculate_dispersion(x, y, window_start_idx, window_end_idx)
         IN IF dispersion # NaN /\ dispersion <= threshold
            THEN [exc |-> "none", cands |-> candidates_copy, start |-> window_start_idx,
                  end |-> window_end_idx + 1, flag |-> TRUE]
            ELSE IF fixation_flag
            THEN [exc |-> "none",
                  cands |-> FillSlice(candidates_copy, window_start_idx, window_end_idx, FIXATION),
                  start |-> window_end_idx, end |-> window_end_idx + window_size - 1, flag |-> FALSE]
            ELSE [exc |-> "none",
                  cands |-> FillSlice(candidates_copy, window_start_idx, window_start_idx + 1, SACCADE),
                  start |-> window_start_idx + 1, end |-> window_end_idx + 1, flag |-> FALSE]

\* one iteration whose new window after a fixation starts one sample after
\* the end of the old one
IDTIterationSkipAfterFixation(x, y, candidates_copy, window_start_idx, window_end_idx, fixation_flag, window_size, threshold) ==
    IF window_end_idx < window_start_idx
    THEN [exc |-> "ValueError", cands |-> candidates_copy, start |-> window_start_idx,
          end |-> window_end_idx, flag |-> fixation_flag]
    ELSE LET dispersion == _calculate_dispersion(x, y, window_start_idx, window_end_idx)
         IN IF dispersion # NaN /\ dispersion < threshold
            THEN [exc |-> "none", cands |-> candidates_copy, start |-> window_start_idx,
                  end |-> window_end_idx + 1, flag |-> TRUE]
            ELSE IF fixation_flag
            THEN [exc |-> "none",
                  cands |-> FillSlice(candidates_copy, window_start_idx, window_end_idx, FIXATION),
                  start |-> (window_end_idx + 1), end |-> (window_end_idx + 1) + window_size - 1, flag |-> FALSE]
            ELSE [exc |-> "none",
                  cands |-> FillSlice(candidates_copy, window_start_idx, window_start_idx + 1, SACCADE),
                  start |-> window_start_idx + 1, end |-> window_end_idx + 1, flag |-> FALSE]

\* one iteration that labels a saccade sample without moving the window
IDTIterationWithoutSlide(x, y, candidates_copy, window_start_idx, window_end_idx, fixation_flag, window_size, threshold) ==
    IF window_end_idx < window_start_idx
    THEN [exc |-> "ValueError", cands |-> candidates_copy, start |-> window_start_idx,
          end |-> window_end_idx, flag |-> fixation_flag]
    ELSE LET dispersion == _calculate_dispersion(x, y, window_start_idx, window_end_idx)
         IN IF dispersion # NaN /\ dispersion < threshold
            THEN [exc |-> "none", cands |-> candidates_copy, start |-> window_start_idx,
                  end |-> window_end_idx + 1, flag |-> TRUE]
            ELSE IF fixation_flag
            THEN [exc |-> "none",
                  cands |-> FillSlice(candidates_copy, window_start_idx, window_end_idx, FIXATION),
                  start |-> window_end_idx, end |-> window_end_idx + window_size - 1, flag |-> FALSE]
            ELSE [exc |-> "none",
                  cands |-> FillSlice(candidates_copy, window_start_idx, window_start_idx + 1, SACCADE),
                  start |-> window_start_idx + 0, end |-> window_end_idx + 0, flag |-> FALSE]

\* one iteration of the while-loop of _identify_gaze_event_candidates: the
\* candidates and the window after it; max() of an empty window raises
\* ValueError
IDTIteration(x, y, candidates_copy, window_start_idx, window_end_idx, fixation_flag, window_size, threshold) ==
    IF window_end_idx < window_start_idx
    THEN [exc |-> "ValueError", cands |-> candidates_copy, start |-> window_start_idx,
          end |-> window_end_idx, flag |-> fixation_flag]
    ELSE LET dispersion == _calculate_dispersion(x, y, window_start_idx, window_end_idx)
         IN IF dispersion # NaN /\ dispersion < threshold
            THEN [exc |-> "none", cands |-> candidates_copy, start |-> window_start_idx,
                  end |-> window_end_idx + 1, flag |-> TRUE]
            ELSE IF fixation_flag
            THEN [exc |-> "none",
                  cands |-> FillSlice(candidates_copy, window_start_idx, window_end_idx, FIXATION),
                  start |-> window_end_idx, end |-> window_end_idx + window_size - 1, flag |-> FALSE]
            ELSE [exc |-> "none",
                  cands |-> FillSlice(candidates_copy, window_start_idx, window_start_idx + 1, SACCADE),
                  start |-> window_start_idx + 1, end |-> window_end_idx + 1, flag |-> FALSE]

\* round(self._window_duration * self._sr / 1000)
IDTWindowSize(window_duration, sr) == PyRound(window_duration * sr[1], MILLISECONDS_PER_SECOND * sr[2])

\* IDTDetector._identify_gaze_event_candidates
IDT_identify_gaze_event_candidates(x, y, candidates, sr, window_duration, threshold) ==
    LET window_size == IDTWindowSize(window_duration, sr)
    IN IF window_size - 1 >= Len(x) THEN [exc |-> "ValueError", cands |-> candidates]
       ELSE IDTLoop(x, y, candidates, 0, window_size - 1, FALSE, window_size, threshold)

\* ------------------------------------------ Detectors/EngbertDetector.py
LAMBDA_NOISE_THRESHOLD == 5

\* the length check one sample too lenient: len(x) < 2 * ws - 1
EngbertVerifyFailsBelowOneLess(t, x, y, ws) == BaseVerifyFails(t, x, y) \/ Len(x) < 2 * ws - 1

\* EngbertDetector._verify_inputs: the base check, then at least
\* 2 * derivation_window_size samples
EngbertVerifyFails(t, x, y, ws) == BaseVerifyFails(t, x, y) \/ Len(x) < 2 * ws

RECURSIVE SumRange(_, _, _)
\* arr[lo] + ... + arr[hi] over the source's indices, NaN when a term is NaN
SumRange(arr, lo, hi) ==
    IF lo > hi THEN 0
    ELSE LET rest == SumRange(arr, lo + 1, hi)
         IN IF At(arr, lo) = NaN \/ rest = NaN THEN NaN ELSE At(arr, lo) + rest

\* _calculate_axial_velocity with the sample at t counted in sum_after:
\* arr[t : t + ws + 1] where the source sums arr[t + 1 : t + ws + 1]
_calculate_axial_velocity_through_t(arr, ws) ==
    [k \in 1..Len(arr) |->
        IF k - 1 < ws \/ k - 1 >= Len(arr) - ws THEN NaN
        ELSE LET sum_before == SumRange(arr, k - 1 - ws, k - 2)
                 sum_after == SumRange(arr, k - 1, k - 1 + ws)
             IN IF sum_before = NaN \/ sum_after = NaN THEN NaN ELSE sum_after - sum_before]

\* EngbertDetector._calculate_axial_velocity without its positive common
\* factor sr / (2 * (ws + 1)): sum_after - sum_before for ws <= t < n - ws,
\* NaN elsewhere and where a summed sample is NaN
_calculate_axial_velocity(arr, ws) ==
    [k \in 1..Len(arr) |->
        IF k - 1 < ws \/ k - 1 >= Len(arr) - ws THEN NaN
        ELSE LET sum_before == SumRange(arr, k - 1 - ws, k - 2)
                 sum_after == SumRange(arr, k, k - 1 + ws)
             IN IF sum_before = NaN \/ sum_after = NaN THEN NaN ELSE sum_after - sum_before]

\* np.nan in an array of rationals
NaNRatio == <<0, 0>>

\* EngbertDetector._calculate_axial_velocity with its factor: RuntimeError when
\* self._sr is not finite, else velocities[t] = diff * (self._sr / (2 * (ws + 1)))
\* as the rational <<numerator, denominator>>, NaNRatio where diff is NaN
ScaledAxialVelocity(arr, ws, rate) ==
    IF rate = NaNRate THEN [exc |-> "RuntimeError", velocities |-> <<>>]
    ELSE [exc |-> "none",
          velocities |-> [k \in 1..Len(arr) |->
              LET diff == _calculate_axial_velocity(arr, ws)[k]
              IN IF diff = NaN THEN NaNRatio ELSE <<diff * rate[1], 2 * (ws + 1) * rate[2]>>]]

\* the values of a sequence that are not NaN (np.nanmedian ignores NaN)
NotNaN(seq) == SelectSeq(seq, LAMBDA v : v # NaN)

\* four times (median of squares - squared median) of the unscaled
\* velocities; NaN when every velocity is NaN
MedianVariance4(velocities) ==
    LET vals == NotNaN(velocities)
        squares == [k \in 1..Len(vals) |-> vals[k] * vals[k]]
    IN IF vals = <<>> THEN NaN
       ELSE 2 * Median2(squares) - Median2(vals) * Median2(vals)

\* (velocity / threshold) ** 2 as <<numerator, denominator>>.  The threshold
\* is lambda * max(sd, EPSILON): with a positive median variance it is
\* lambda * sqrt(variance); otherwise it is lambda * EPSILON, against which a
\* velocity of 0 gives 0 and any other velocity a ratio far above 1 (<<1, 0>>).
EllipseTerm(v, variance4) ==
    IF variance4 # NaN /\ variance4 > 0
    THEN <<4 * v * v, LAMBDA_NOISE_THRESHOLD * LAMBDA_NOISE_THRESHOLD * variance4>>
    ELSE IF v = 0 THEN <<0, 1>> ELSE <<1, 0>>

\* ellipse < 1 for two terms given as fractions
EllipseBelowOne(tx, ty) ==
    /\ tx[2] # 0
    /\ ty[2] # 0
    /\ tx[1] * ty[2] + ty[1] * tx[2] < tx[2] * ty[2]

\* EngbertDetector._identify_gaze_event_candidates: a sample whose ellipse
\* value is NaN keeps its label, whatever that label is
Engbert_identify_gaze_event_candidates(x, y, candidates, ws) ==
    LET x_velocity == _calculate_axial_velocity(x, ws)
        y_velocity == _calculate_axial_velocity(y, ws)
        var_x == MedianVariance4(x_velocity)
        var_y == MedianVariance4(y_velocity)
    IN [exc |-> "none",
        cands |-> [k \in 1..Len(candidates) |->
                     IF x_velocity[k] = NaN \/ y_velocity[k] = NaN THEN candidates[k]
                     ELSE IF EllipseBelowOne(EllipseTerm(x_velocity[k], var_x),
                                             EllipseTerm(y_velocity[k], var_y))
                          THEN FIXATION ELSE SACCADE]]

\* ------------------------------------------ Detectors/NHDetector.py
\* The angular velocities come from a polynomial filter, an arctangent and
\* floating-point division; which samples are velocity peaks and where a
\* saccade starts and ends is therefore a choice among the values the search
\* loops can return.  What the detector then does with these values is
\* modelled as written.
SAVGOL_WINDOW_LENGTH == 3
NH_MIN_SACCADE_DURATION == 10
NH_MIN_FIXATION_DURATION == 40

\* indices whose filtered coordinate is NaN: the filter spreads a NaN over its
\* window, and the two edge samples are fitted on the first and last window
FilteredNaN(x, y, i) ==
    LET n == Len(x)
        lo == IF i = 0 THEN 0 ELSE IF i = n - 1 THEN n - 3 ELSE i - 1
        hi == IF i = 0 THEN 2 ELSE IF i = n - 1 THEN n - 1 ELSE i + 1
    IN \E j \in lo..hi : At(x, j) = NaN \/ At(y, j) = NaN

\* _filter_and_denoise: the indices where both the angular velocity and the
\* angular acceleration are NaN: index 0 (dt is NaN), a zero time step, and a
\* NaN filtered coordinate at the sample or its predecessor
NaNVelocity(x, y, timestamps, i) ==
    \/ i = 0
    \/ At(timestamps, i) - At(timestamps, i - 1) = 0
    \/ FilteredNaN(x, y, i)
    \/ FilteredNaN(x, y, i - 1)

\* the (peak, onset, offset) triples _find_onset_saccade and
\* _find_offset_saccade can return for one velocity peak: the peak is a strict
\* local maximum among non-NaN velocities, the onset lies in 0..peak-1 and the
\* offset in peak+1..n-1
NHPeakSpans(x, y, timestamps) ==
    LET n == Len(x)
    IN {sp \in (0..(n - 1)) \X (0..(n - 1)) \X (0..(n - 1)) :
          /\ sp[2] < sp[1] /\ sp[1] < sp[3]
          /\ sp[1] >= 1 /\ sp[1] <= n - 2
          /\ \A i \in (sp[1] - 1)..(sp[1] + 1) : ~NaNVelocity(x, y, timestamps, i)}

\* NHDetector._saccade_detection for one peak: the span is SACCADE when it
\* lasts longer than the minimum saccade duration, UNDEFINED otherwise
_saccade_detection(candidates, timestamps, onset, offset) ==
    IF At(timestamps, offset) - At(timestamps, onset) > NH_MIN_SACCADE_DURATION
    THEN FillSlice(candidates, onset, offset + 1, SACCADE)
    ELSE FillSlice(candidates, onset, offset + 1, UNDEFINED)

RECURSIVE FixationLoop(_, _, _, _, _, _)
\* the for-loop of NHDetector._fixation_detection from index i on.  A run of
\* UNDEFINED is examined when the sample after it is met, and is relabeled when
\* it lasts longer than the class constant __MIN_FIXATION_DURATION.
FixationLoop(candidates, timestamps, i, sequence_start_index, sequence_end_index, is_fixation_sequence_possible) ==
    IF i >= Len(candidates) THEN candidates
    ELSE IF At(candidates, i) = UNDEFINED
    THEN IF ~is_fixation_sequence_possible
         THEN FixationLoop(candidates, timestamps, i + 1, i, i, TRUE)
         ELSE FixationLoop(candidates, timestamps, i + 1, sequence_start_index, i, TRUE)
    ELSE IF is_fixation_sequence_possible
    THEN IF At(timestamps, sequence_end_index) - At(timestamps, sequence_start_index)
              > NH_MIN_FIXATION_DURATION
         THEN FixationLoop(FillSlice(candidates, sequence_start_index, sequence_end_index + 1, FIXATION),
                           timestamps, i + 1, sequence_start_index, sequence_end_index, FALSE)
         ELSE FixationLoop(candidates, timestamps, i + 1, sequence_start_index,
                           sequence_end_index, FALSE)
    ELSE FixationLoop(candidates, timestamps, i + 1, sequence_start_index,
                      sequence_end_index, FALSE)

_fixation_detection(candidates, timestamps) == FixationLoop(candidates, timestamps, 0, 0, 0, FALSE)

\* the last two loops of NHDetector._identify_gaze_event_candidates: noise
\* samples become UNDEFINED, then the blinks found on entry are written back
NHRestore(labelled, entry_candidates, x, y, timestamps) ==
    [k \in 1..Len(labelled) |->
        IF entry_candidates[k] = BLINK THEN BLINK
        ELSE IF NaNVelocity(x, y, timestamps, k - 1) THEN UNDEFINED
        ELSE labelled[k]]

\* the span a glissade found after a saccade ending at `offset` can cover:
\* it starts at offset + 1 and needs a local maximum among at least three
\* samples before the end of the array
NHGlissadeEnds(n, offset) ==
    IF (n - 1) - (offset + 1) >= 3 THEN (offset + 3)..(n - 1) ELSE {}

\* NHDetector._identify_gaze_event_candidates: the outcomes for no velocity
\* peak and for one velocity peak.  The filter rejects an input shorter than
\* its window, and the division by the time steps rejects a timestamp list of
\* another length (ValueError).  A confirmed saccade that ends on the last
\* sample makes _find_window_end_index read timestamps[n] (IndexError).
NH_identify_gaze_event_candidates(x, y, candidates, timestamps) ==
    IF Len(x) < SAVGOL_WINDOW_LENGTH \/ Len(timestamps) # Len(x)
    THEN {[exc |-> "ValueError", cands |-> candidates]}
    ELSE {[exc |-> "none",
           cands |-> NHRestore(_fixation_detection(candidates, timestamps),
                               candidates, x, y, timestamps)]}
         \cup
         {IF At(timestamps, sp[3]) - At(timestamps, sp[2]) > NH_MIN_SACCADE_DURATION
             /\ sp[3] = Len(x) - 1
          THEN [exc |-> "IndexError", cands |-> candidates]
          ELSE [exc |-> "none",
                cands |-> NHRestore(
                    _fixation_detection(
                        _saccade_detection(candidates, timestamps, sp[2], sp[3]), timestamps),
                    candidates, x, y, timestamps)]
            : sp \in NHPeakSpans(x, y, timestamps)}
         \cup
         UNION {
           {[exc |-> "none",
             cands |-> NHRestore(
                 _fixation_detection(
                     FillSlice(_saccade_detection(candidates, timestamps, sp[2], sp[3]),
                               sp[3] + 1, g + 1, PSO),
                     timestamps),
                 candidates, x, y, timestamps)]
              : g \in NHGlissadeEnds(Len(x), sp[3])}
            : sp \in {q \in NHPeakSpans(x, y, timestamps) :
                        At(timestamps, q[3]) - At(timestamps, q[2]) > NH_MIN_SACCADE_DURATION}}

\* ------------------------------------------ GazeEvents/BaseEvent.py
MINIMUM_SAMPLES_PER_EVENT == 2

\* np.isfinite
IsFinite(v) == v # NaN /\ v # Inf

\* BaseEvent.__init__ raises ValueError: too few samples, a NaN or infinite
\* timestamp, a negative timestamp
BaseEventInitFails(timestamps) ==
    \/ Len(timestamps) < MINIMUM_SAMPLES_PER_EVENT
    \/ \E k \in 1..Len(timestamps) : ~IsFinite(timestamps[k])
    \/ \E k \in 1..Len(timestamps) : timestamps[k] < 0

\* BaseGazeEvent.__init__ raises ValueError: viewer_distance not a positive
\* finite number, arrays of different lengths, or BaseEvent.__init__ raising;
\* calculate_velocities raises nothing on arrays of one length
BaseGazeEventInitFails(timestamps, xy_len, viewer_distance) ==
    \/ ~IsFinite(viewer_distance)
    \/ viewer_distance <= 0
    \/ Len(timestamps) # xy_len
    \/ BaseEventInitFails(timestamps)

\* an event object: its class and the timestamps array it holds
Event(cls, timestamps) == [cls |-> cls, timestamps |-> timestamps]

\* the value None
None == [cls |-> "None", timestamps |-> <<>>]

\* BaseEvent.start_time, end_time, duration
start_time(event) == event.timestamps[1]
end_time(event) == event.timestamps[Len(event.timestamps)]
duration(event) == end_time(event) - start_time(event)

\* the method resolution order of the event classes
MRO(cls) ==
    CASE cls = "BaseEvent" -> <<"BaseEvent">>
      [] cls = "BaseGazeEvent" -> <<"BaseGazeEvent", "BaseEvent">>
      [] cls = "BlinkEvent" -> <<"BlinkEvent", "BaseEvent">>
      [] cls = "FixationEvent" -> <<"FixationEvent", "BaseGazeEvent", "BaseEvent">>
      [] cls = "SaccadeEvent" -> <<"SaccadeEvent", "BaseGazeEvent", "BaseEvent">>

\* self.MIN_DURATION / self.MAX_DURATION: the attribute of the first class of
\* the MRO that defines it.  attrs maps the classes defining the attribute to
\* their value.
ClassAttr(attrs, cls) ==
    LET order == MRO(cls)
        first == CHOOSE i \in 1..Len(order) :
                    /\ order[i] \in DOMAIN attrs
                    /\ \A j \in 1..(i - 1) : order[j] \notin DOMAIN attrs
    IN  attrs[order[first]]

\* cls.MIN_DURATION = value / cls.MAX_DURATION = value
SetClassAttr(attrs, cls, value) ==
    [c \in DOMAIN attrs \cup {cls} |-> IF c = cls THEN value ELSE attrs[c]]

\* BaseEvent.get_outlier_reasons, which FixationEvent and SaccadeEvent return
\* unchanged; mins and maxs are the classes' MIN_DURATION and MAX_DURATION
get_outlier_reasons(event, mins, maxs) ==
    (IF duration(event) < ClassAttr(mins, event.cls) THEN <<"min_duration">> ELSE <<>>)
        \o (IF duration(event) > ClassAttr(maxs, event.cls) THEN <<"max_duration">> ELSE <<>>)

\* BaseEvent.is_outlier
is_outlier(event, mins, maxs) == Len(get_outlier_reasons(event, mins, maxs)) > 0

\* ------------------------------------------ scripts/create_gaze_events.py
\* _create_event_raw: None for UNDEFINED, an event of the label's class for
\* FIXATION, SACCADE and BLINK, ValueError for every other label
_create_event_raw(event_type, timestamps, xy_len, viewer_distance) ==
    IF event_type = UNDEFINED THEN [exc |-> "none", event |-> None]
    ELSE IF event_type = FIXATION
    THEN IF BaseGazeEventInitFails(timestamps, xy_len, viewer_distance)
         THEN [exc |-> "ValueError", event |-> None]
         ELSE [exc |-> "none", event |-> Event("FixationEvent", timestamps)]
    ELSE IF event_type = SACCADE
    THEN IF BaseGazeEventInitFails(timestamps, xy_len, viewer_distance)
         THEN [exc |-> "ValueError", event |-> None]
         ELSE [exc |-> "none", event |-> Event("SaccadeEvent", timestamps)]
    ELSE IF event_type = BLINK
    THEN IF BaseEventInitFails(timestamps)
         THEN [exc |-> "ValueError", event |-> None]
         ELSE [exc |-> "none", event |-> Event("BlinkEvent", timestamps)]
    ELSE [exc |-> "ValueError", event |-> None]

RECURSIVE AggregateLoop(_, _, _, _, _, _)
\* the for-loop of create_gaze_events from chunk number c on.  acc holds the
\* events appended so far and the first index of every chunk warned about.
\* candidates[chunk_idxs[0]] stands outside the try block: on an empty chunk
\* its IndexError leaves the function.  gaze_data.iloc[chunk_idxs] on a table
\* that is too short raises IndexError inside the try block.
AggregateLoop(milliseconds, candidates, viewer_distance, chunk_list, c, acc) ==
    IF c > Len(chunk_list) THEN acc
    ELSE IF chunk_list[c] = <<>>
    THEN [exc |-> "IndexError", events |-> <<>>, warned |-> acc.warned]
    ELSE LET chunk == chunk_list[c]
             event_type == At(candidates, chunk[1])
             r == IF chunk[Len(chunk)] >= Len(milliseconds)
                  THEN [exc |-> "IndexError", event |-> None]
                  ELSE _create_event_raw(event_type,
                                         [j \in 1..Len(chunk) |-> At(milliseconds, chunk[j])],
                                         Len(chunk), viewer_distance)
         IN IF r.exc # "none"
            THEN AggregateLoop(milliseconds, candidates, viewer_distance, chunk_list, c + 1,
                               [acc EXCEPT !.warned = Append(@, chunk[1])])
            ELSE AggregateLoop(milliseconds, candidates, viewer_distance, chunk_list, c + 1,
                               [acc EXCEPT !.events = Append(@, r.event)])

RECURSIVE InsertByStart(_, _)
\* one step of a stable sort by start_time: ev goes after every event that
\* does not start later
InsertByStart(ev, sorted) ==
    IF sorted = <<>> THEN <<ev>>
    ELSE IF start_time(Head(sorted)) <= start_time(ev)
    THEN <<Head(sorted)>> \o InsertByStart(ev, Tail(sorted))
    ELSE <<ev>> \o sorted

RECURSIVE SortByStart(_)
\* events.sort(key=lambda ev: ev.start_time)
SortByStart(events) ==
    IF events = <<>> THEN <<>>
    ELSE InsertByStart(events[Len(events)], SortByStart(SubSeq(events, 1, Len(events) - 1)))

\* create_gaze_events(gaze_data, candidates, viewer_distance, eye), gaze_data
\* given by its milliseconds column
create_gaze_events(milliseconds, candidates, viewer_distance, eye) ==
    IF Lower(eye) \notin {"left", "right"}
    THEN [exc |-> "ValueError", events |-> <<>>, warned |-> <<>>]
    ELSE LET r == AggregateLoop(milliseconds, candidates, viewer_distance,
                                get_chunk_indices(candidates), 1,
                                [exc |-> "none", events |-> <<>>, warned |-> <<>>])
         IN IF r.exc # "none" THEN r
            ELSE [r EXCEPT !.events = SortByStart(SelectSeq(r.events, LAMBDA ev : ev # None))]


\* ------------------------------------------ Utils/pixel_utils.py
\* Angles are counted in eighths of a turn (45 degrees, pi / 4), which is exact
\* for the directions between points whose coordinates differ by -1, 0 or 1.

\* str.upper() on the values used here
Upper(s) == CASE s = "e" -> "E" [] s = "s" -> "S" [] OTHER -> s

\* _is_valid_pixel
_is_valid_pixel(p) == IsFinite(p[1]) /\ IsFinite(p[2])

\* np.arctan2(dy, dx) in eighths of a turn, in (-4, 4]; arctan2(0, 0) is 0
Arctan2(dy, dx) ==
    CASE dy = 0 /\ dx >= 0 -> 0
      [] dy = 0 /\ dx < 0 -> 4
      [] dy > 0 /\ dx = 0 -> 2
      [] dy < 0 /\ dx = 0 -> -2
      [] dy > 0 /\ dx > 0 -> 1
      [] dy > 0 /\ dx < 0 -> 3
      [] dy < 0 /\ dx > 0 -> -1
      [] dy < 0 /\ dx < 0 -> -3

\* calculate_azimuth(p1, p2, zero_direction, use_radians): ValueError for an
\* unknown zero_direction, NaN for a non-finite point, else the angle in
\* eighths of a turn (use_radians: multiples of pi / 4) or in degrees
calculate_azimuth(p1, p2, zero_direction, use_radians) ==
    IF Upper(zero_direction) \notin {"E", "W", "S", "N"}
    THEN [exc |-> "ValueError", angle |-> NaN]
    ELSE IF ~_is_valid_pixel(p1) \/ ~_is_valid_pixel(p2)
    THEN [exc |-> "none", angle |-> NaN]
    ELSE LET arctan == Arctan2(p1[2] - p2[2], p2[1] - p1[1])
             shifted == CASE Upper(zero_direction) = "W" -> arctan + 4
                          [] Upper(zero_direction) = "S" -> arctan + 2
                          [] Upper(zero_direction) = "N" -> arctan - 2
                          [] OTHER -> arctan
             angle_rad == shifted % 8
         IN [exc |-> "none", angle |-> IF use_radians THEN angle_rad ELSE 45 * angle_rad]


\* ------------------------------------------ Detectors/BaseDetector.py
\* detect_candidates_monocular statement by statement, for calls that share
\* the detector: `call` holds the arguments, locals and position of one call,
\* `rate` is self._sr of the detector before the statement.  The result is the
\* call and self._sr after it.
InitialCall(t, x, y, expand_blink_by_ms) ==
    [t |-> t, x |-> x, y |-> y, expand_blink_by_ms |-> expand_blink_by_ms,
     xm |-> x, ym |-> y, candidates |-> <<>>, pc |-> "start", caught |-> "none",
     exc |-> "none", result |-> <<>>]

\* the statement of detect_candidates_monocular at call.pc, run on the
\* detector d whose self._sr is `rate`
DetectStatement(d, call, rate) ==
    LET Caught(stage) == [call |-> [call EXCEPT !.pc = "return", !.caught = stage], sr |-> rate]
        Raised(e) == [call |-> [call EXCEPT !.pc = "done", !.exc = e], sr |-> rate]
    IN CASE call.pc = "start" ->
              [call |-> [call EXCEPT !.candidates = FullUndefined(call.x), !.pc = "verify"], sr |-> rate]
         [] call.pc = "verify" ->
              IF (IF d.kind = "Engbert" THEN EngbertVerifyFails(call.t, call.x, call.y, d.param)
                                        ELSE BaseVerifyFails(call.t, call.x, call.y))
              THEN Caught("verify")
              ELSE [call |-> [call EXCEPT !.pc = "rate"], sr |-> rate]
         [] call.pc = "rate" ->
              LET r == _calculate_sampling_rate(call.t)
              IN IF r.exc = "ValueError" THEN Caught("rate")
                 ELSE IF r.exc # "none" THEN Raised(r.exc)
                 ELSE [call |-> [call EXCEPT !.pc = "blink"], sr |-> r.sr]
         [] call.pc = "blink" ->
              IF call.expand_blink_by_ms < 0 THEN Caught("blink")
              ELSE LET candidates_copy == BlinkCandidates(d.missing_value, call.x, call.y, call.candidates,
                                                          call.expand_blink_by_ms, rate)
                   IN [call |-> [call EXCEPT !.candidates = candidates_copy,
                                             !.xm = MaskBlinks(call.x, candidates_copy),
                                             !.ym = MaskBlinks(call.y, candidates_copy),
                                             !.pc = "classify"],
                       sr |-> rate]
         [] call.pc = "classify" ->
              LET r == CASE d.kind = "IVT" ->
                              IVT_identify_gaze_event_candidates(call.xm, call.ym, call.candidates, d.param)
                         [] d.kind = "IDT" ->
                              IDT_identify_gaze_event_candidates(call.xm, call.ym, call.candidates, rate,
                                                                 d.param, d.dispersion_threshold_pixels)
                         [] d.kind = "Engbert" ->
                              Engbert_identify_gaze_event_candidates(call.xm, call.ym, call.candidates, d.param)
              IN IF r.exc = "ValueError" THEN Caught("classify")
                 ELSE IF r.exc # "none" THEN Raised(r.exc)
                 ELSE [call |-> [call EXCEPT !.candidates = r.cands, !.pc = "suppress"], sr |-> rate]
         [] call.pc = "suppress" ->
              IF SetShortRaises(call.candidates, rate) THEN Caught("suppress")
              ELSE [call |-> [call EXCEPT !.candidates = _set_short_chunks_as_undefined(call.candidates, rate),
                                          !.pc = "merge"],
                    sr |-> rate]
         [] call.pc = "merge" ->
              IF MergeRaises(call.candidates, rate) THEN Caught("merge")
              ELSE [call |-> [call EXCEPT
                                 !.candidates = _merge_proximal_chunks_of_identical_values(call.candidates, rate, {}),
                                 !.pc = "return"],
                    sr |-> rate]
         [] call.pc = "return" ->
              [call |-> [call EXCEPT !.result = call.candidates, !.pc = "done"], sr |-> rate]

\* ===================================================================
\* State
\* ===================================================================
VARIABLES
    det,                  \* the detector: its class and constructor arguments
    t, x, y,              \* arguments of detect_candidates_monocular
    expand_blink_by_ms,   \* argument of detect_candidates_monocular
    sr,                   \* self._sr
    xm, ym,               \* the locals x, y once the blink step has rebound them
    candidates,           \* the local `candidates`
    pc,                   \* the statement of detect_candidates_monocular to run next
    caught,               \* the step whose ValueError the except clause caught
    exc,                  \* the exception that left the call, "none" otherwise
    result,               \* the returned list
    u_arr, u_sr, u_allow, \* a run-length utility called directly: array, _sr, exemptions
    u_op, u_out, u_exc,   \* the utility called, what it returned, what it raised
    u_again,              \* what the utility returned when called on its own result
    b_args,               \* arguments of detect_candidates_binocular
    b_left, b_right,      \* its locals left_candidates and right_candidates
    b_op, b_out, b_exc,   \* the binocular call made, what it returned, what it raised
    g_args,               \* arguments of create_gaze_events
    g_op, g_out, g_exc,   \* the aggregation call made, the events returned, what it raised
    g_warned,             \* first index of every chunk create_gaze_events warned about
    cls_min, cls_max,     \* MIN_DURATION, MAX_DURATION of the event classes defining them
    events,               \* the event objects constructed so far
    e_op, e_arg, e_exc,   \* the last operation on events, its arguments, what it raised
    e_calls,              \* number of constructor and set_*_duration calls made
    f_args,               \* arguments of a geometry or velocity function called directly
    f_op, f_out, f_exc,   \* the function called, what it returned, what it raised
    i_args,               \* arguments of the I-DT classification run statement by statement
    i_candidates,         \* its local candidates_copy
    i_start, i_end,       \* its locals window_start_idx and window_end_idx
    i_flag,               \* its local fixation_flag
    i_pc, i_exc,          \* the statement it is at, what it raised
    i_committed,          \* the windows <<first, last>> it wrote FIXATION over
    n_args,               \* arguments of the NH saccade and fixation detection
    n_candidates,         \* the candidates array the two methods write to
    n_peak,               \* number of velocity peaks _saccade_detection has handled
    n_confirmed,          \* indices inside a span committed as SACCADE
    n_pc,                 \* the NH method running
    c_det,                \* the detector two concurrent calls share
    c_sr,                 \* its attribute _sr
    c_call                \* the two calls: arguments, locals, position

pipeVars == <<det, t, x, y, expand_blink_by_ms, sr, xm, ym, candidates, pc, caught, exc, result>>
utilVars == <<u_arr, u_sr, u_allow, u_op, u_out, u_exc, u_again>>
binoVars == <<b_args, b_left, b_right, b_op, b_out, b_exc>>
aggVars == <<g_args, g_op, g_out, g_exc, g_warned>>
evVars == <<cls_min, cls_max, events, e_op, e_arg, e_exc, e_calls>>
fnVars == <<f_args, f_op, f_out, f_exc>>
idtVars == <<i_args, i_candidates, i_start, i_end, i_flag, i_pc, i_exc, i_committed>>
nhVars == <<n_args, n_candidates, n_peak, n_confirmed, n_pc>>
concVars == <<c_det, c_sr, c_call>>
vars == <<pipeVars, utilVars, binoVars, aggVars, evVars, fnVars, idtVars, nhVars, concVars>>

\* what an action of one specification leaves alone
nonPipeVars == <<utilVars, binoVars, aggVars, evVars, fnVars, idtVars, nhVars, concVars>>
nonUtilVars == <<pipeVars, binoVars, aggVars, evVars, fnVars, idtVars, nhVars, concVars>>
nonBinoVars == <<pipeVars, utilVars, aggVars, evVars, fnVars, idtVars, nhVars, concVars>>
nonAggVars == <<pipeVars, utilVars, binoVars, evVars, fnVars, idtVars, nhVars, concVars>>
nonEvVars == <<pipeVars, utilVars, binoVars, aggVars, fnVars, idtVars, nhVars, concVars>>
nonFnVars == <<pipeVars, utilVars, binoVars, aggVars, evVars, idtVars, nhVars, concVars>>
nonIdtVars == <<pipeVars, utilVars, binoVars, aggVars, evVars, fnVars, nhVars, concVars>>
nonNhVars == <<pipeVars, utilVars, binoVars, aggVars, evVars, fnVars, idtVars, concVars>>
nonConcVars == <<pipeVars, utilVars, binoVars, aggVars, evVars, fnVars, idtVars, nhVars>>

\* ===================================================================
\* Specification Spec: one call of detect_candidates_monocular, statement by
\* statement, on a freshly constructed detector.
\* ===================================================================
\* (x, y) samples: two valid positions, x missing, y missing
Points == {<<0, 0>>, <<1, 0>>, <<NaN, 0>>, <<0, NaN>>}

\* a valid and a missing sample, for the longer recordings
PatternPoints == {<<0, 0>>, <<NaN, 0>>}

\* recordings: every array of Points up to MaxLen samples, and every
\* valid/missing pattern from there up to MaxPatternLen samples
SampleArrays ==
    UNION {[1..n -> Points] : n \in 0..MaxLen}
    \cup UNION {[1..n -> PatternPoints] : n \in (MaxLen + 1)..MaxPatternLen}

\* inter-sample steps in ms: 500 Hz, 250 Hz, 50 Hz
TimeSteps == {2, 4, 20}

UniformTimes(n, dt) == [k \in 1..n |-> (k - 1) * dt]

\* steps of 2 and 4 ms in turn: 0, 2, 6, 8, 12, ...
AlternatingTimes(n) == [k \in 1..n |-> 3 * (k - 1) - ((k - 1) % 2)]

\* well-formed timestamp arrays for n samples
TimestampArrays(n) == {UniformTimes(n, dt) : dt \in TimeSteps} \cup {AlternatingTimes(n)}

\* timestamp arrays the call rejects: all equal, and one element too long
BadTimestampArrays(n) == {UniformTimes(n, 0), UniformTimes(n + 1, 2)}

\* detectors under test; param is, for IVT, twice the velocity threshold
\* (default 0.5), for IDT the window duration in ms, for Engbert the derivation
\* window size.  dispersion_threshold_pixels is read by IDT alone.  NH keeps the timestamps given to its constructor,
\* here those of the call.
DetectorConfigs ==
    {[kind |-> "IVT", missing_value |-> NaN, param |-> 1, dispersion_threshold_pixels |-> 0],
     [kind |-> "IDT", missing_value |-> NaN, param |-> 8, dispersion_threshold_pixels |-> 1],
     [kind |-> "IDT", missing_value |-> 1, param |-> 8, dispersion_threshold_pixels |-> 1],
     [kind |-> "Engbert", missing_value |-> NaN, param |-> 1, dispersion_threshold_pixels |-> 0],
     [kind |-> "Engbert", missing_value |-> NaN, param |-> 2, dispersion_threshold_pixels |-> 0],
     [kind |-> "NH", missing_value |-> NaN, param |-> 0, dispersion_threshold_pixels |-> 0]}

\* expand_blink_by_ms of a valid call: none, and 4 ms (2 samples at 500 Hz, 1 at
\* 250 Hz, 0 at 50 Hz)
ExpandChoices == {0, 4}

\* the 50-sample 500 Hz recordings of the end-to-end scenarios, run with I-VT:
\* constant gaze, and constant gaze with samples 10..14 missing
ScenarioX(withGap) == [k \in 1..50 |-> IF withGap /\ k - 1 \in 10..14 THEN NaN ELSE 1]

InitCall ==
    /\ sr = NaNRate
    /\ xm = x
    /\ ym = y
    /\ candidates = <<>>
    /\ pc = "start"
    /\ caught = "none"
    /\ exc = "none"
    /\ result = <<>>

UtilIdle ==
    /\ u_arr = <<>>
    /\ u_sr = NaNRate
    /\ u_allow = {}
    /\ u_op = "none"
    /\ u_out = <<>>
    /\ u_exc = "none"
    /\ u_again = <<>>

BinoIdle ==
    /\ b_args = <<>>
    /\ b_left = <<>>
    /\ b_right = <<>>
    /\ b_op = "none"
    /\ b_out = <<>>
    /\ b_exc = "none"

AggIdle ==
    /\ g_args = <<>>
    /\ g_op = "none"
    /\ g_out = <<>>
    /\ g_exc = "none"
    /\ g_warned = <<>>

\* the event classes as their class statements leave them, and no event
EvIdle ==
    /\ cls_min = [c \in {"BaseEvent", "BlinkEvent", "FixationEvent", "SaccadeEvent"} |->
                     CASE c = "BaseEvent" -> 5
                       [] c = "BlinkEvent" -> 50
                       [] c = "FixationEvent" -> 50
                       [] c = "SaccadeEvent" -> 5]
    /\ cls_max = [c \in {"BaseEvent", "FixationEvent", "SaccadeEvent"} |->
                     CASE c = "BaseEvent" -> 2500
                       [] c = "FixationEvent" -> 2000
                       [] c = "SaccadeEvent" -> 500]
    /\ events = <<>>
    /\ e_op = "none"
    /\ e_arg = <<>>
    /\ e_exc = "none"
    /\ e_calls = 0

FnIdle ==
    /\ f_args = <<>>
    /\ f_op = "none"
    /\ f_out = <<>>
    /\ f_exc = "none"

IdtIdle ==
    /\ i_args = <<>>
    /\ i_candidates = <<>>
    /\ i_start = 0
    /\ i_end = 0
    /\ i_flag = FALSE
    /\ i_pc = "none"
    /\ i_exc = "none"
    /\ i_committed = <<>>

NhIdle ==
    /\ n_args = <<>>
    /\ n_candidates = <<>>
    /\ n_peak = 0
    /\ n_confirmed = {}
    /\ n_pc = "none"

ConcIdle ==
    /\ c_det = <<>>
    /\ c_sr = NaNRate
    /\ c_call = <<>>

\* the functions and detectors of the later specifications are not in use
OthersIdle == FnIdle /\ IdtIdle /\ NhIdle /\ ConcIdle

Init ==
    /\ det \in DetectorConfigs
    /\ \/ /\ \E pts \in SampleArrays :
               /\ x = [k \in 1..Len(pts) |-> pts[k][1]]
               /\ y = [k \in 1..Len(pts) |-> pts[k][2]]
               /\ t \in TimestampArrays(Len(pts))
          /\ expand_blink_by_ms \in ExpandChoices
       \/ /\ \E n \in 0..MaxLen : \E pts \in [1..n -> PatternPoints] :
               /\ x = [k \in 1..n |-> pts[k][1]]
               /\ y = [k \in 1..n |-> pts[k][2]]
               /\ \/ t \in BadTimestampArrays(n) /\ expand_blink_by_ms \in ExpandChoices
                  \/ t \in TimestampArrays(n) /\ expand_blink_by_ms = -1
       \/ /\ det.kind = "IVT"
          /\ \E withGap \in BOOLEAN :
               /\ x = ScenarioX(withGap)
               /\ y = ScenarioX(withGap)
          /\ t = UniformTimes(Len(x), 2)
          /\ expand_blink_by_ms = 0
    /\ InitCall
    /\ UtilIdle
    /\ BinoIdle
    /\ AggIdle
    /\ EvIdle
    /\ OthersIdle

\* candidates = np.full_like(x, GazeEventTypeEnum.UNDEFINED)
Start ==
    /\ pc = "start"
    /\ candidates' = FullUndefined(x)
    /\ pc' = "verify"
    /\ UNCHANGED <<det, t, x, y, expand_blink_by_ms, sr, xm, ym, caught, exc, result>>
    /\ UNCHANGED nonPipeVars

\* t, x, y = self._verify_inputs(t, x, y)
VerifyInputs ==
    /\ pc = "verify"
    /\ IF (IF det.kind = "Engbert" THEN EngbertVerifyFails(t, x, y, det.param)
                                   ELSE BaseVerifyFails(t, x, y))
       THEN pc' = "return" /\ caught' = "verify"
       ELSE pc' = "rate" /\ caught' = caught
    /\ UNCHANGED <<det, t, x, y, expand_blink_by_ms, sr, xm, ym, candidates, exc, result>>
    /\ UNCHANGED nonPipeVars

\* self._sr = self._calculate_sampling_rate(t)
CalculateSamplingRate ==
    /\ pc = "rate"
    /\ LET r == _calculate_sampling_rate(t)
       IN IF r.exc = "ValueError"
          THEN pc' = "return" /\ caught' = "rate" /\ exc' = exc /\ sr' = sr
          ELSE IF r.exc # "none"
          THEN pc' = "done" /\ caught' = caught /\ exc' = r.exc /\ sr' = sr
          ELSE pc' = "blink" /\ caught' = caught /\ exc' = exc /\ sr' = r.sr
    /\ UNCHANGED <<det, t, x, y, expand_blink_by_ms, xm, ym, candidates, result>>
    /\ UNCHANGED nonPipeVars

\* x, y, candidates = self._identify_blink_candidates(x, y, candidates, expand_blink_by_ms)
IdentifyBlinkCandidates ==
    /\ pc = "blink"
    /\ IF expand_blink_by_ms < 0
       THEN pc' = "return" /\ caught' = "blink" /\ UNCHANGED <<xm, ym, candidates>>
       ELSE LET candidates_copy ==
                    BlinkCandidates(det.missing_value, x, y, candidates, expand_blink_by_ms, sr)
            IN /\ candidates' = candidates_copy
               /\ xm' = MaskBlinks(x, candidates_copy)
               /\ ym' = MaskBlinks(y, candidates_copy)
               /\ pc' = "classify"
               /\ caught' = caught
    /\ UNCHANGED <<det, t, x, y, expand_blink_by_ms, sr, exc, result>>
    /\ UNCHANGED nonPipeVars

\* what self._identify_gaze_event_candidates(x, y, candidates) can do
Classifications ==
    CASE det.kind = "IVT" -> {IVT_identify_gaze_event_candidates(xm, ym, candidates, det.param)}
      [] det.kind = "IDT" -> {IDT_identify_gaze_event_candidates(xm, ym, candidates, sr, det.param,
                                                                 det.dispersion_threshold_pixels)}
      [] det.kind = "Engbert" -> {Engbert_identify_gaze_event_candidates(xm, ym, candidates, det.param)}
      [] det.kind = "NH" -> NH_identify_gaze_event_candidates(xm, ym, candidates, t)

\* candidates = self._identify_gaze_event_candidates(x, y, candidates)
IdentifyGazeEventCandidates ==
    /\ pc = "classify"
    /\ \E r \in Classifications :
          IF r.exc = "ValueError"
          THEN pc' = "return" /\ caught' = "classify" /\ exc' = exc /\ candidates' = candidates
          ELSE IF r.exc # "none"
          THEN pc' = "done" /\ caught' = caught /\ exc' = r.exc /\ candidates' = candidates
          ELSE pc' = "suppress" /\ caught' = caught /\ exc' = exc /\ candidates' = r.cands
    /\ UNCHANGED <<det, t, x, y, expand_blink_by_ms, sr, xm, ym, result>>
    /\ UNCHANGED nonPipeVars

\* candidates = self._set_short_chunks_as_undefined(candidates)
SetShortChunksAsUndefined ==
    /\ pc = "suppress"
    /\ IF SetShortRaises(candidates, sr)
       THEN pc' = "return" /\ caught' = "suppress" /\ candidates' = candidates
       ELSE /\ pc' = "merge"
            /\ caught' = caught
            /\ candidates' = _set_short_chunks_as_undefined(candidates, sr)
    /\ UNCHANGED <<det, t, x, y, expand_blink_by_ms, sr, xm, ym, exc, result>>
    /\ UNCHANGED nonPipeVars

\* candidates = self._merge_proximal_chunks_of_identical_values(candidates)
MergeProximalChunks ==
    /\ pc = "merge"
    /\ IF MergeRaises(candidates, sr)
       THEN pc' = "return" /\ caught' = "merge" /\ candidates' = candidates
       ELSE /\ pc' = "return"
            /\ caught' = caught
            /\ candidates' = _merge_proximal_chunks_of_identical_values(candidates, sr, {})
    /\ UNCHANGED <<det, t, x, y, expand_blink_by_ms, sr, xm, ym, exc, result>>
    /\ UNCHANGED nonPipeVars

\* return list(candidates), reached after the last step and after the except
\* clause alike
Return ==
    /\ pc = "return"
    /\ result' = candidates
    /\ pc' = "done"
    /\ UNCHANGED <<det, t, x, y, expand_blink_by_ms, sr, xm, ym, candidates, caught, exc>>
    /\ UNCHANGED nonPipeVars

Next ==
    \/ Start
    \/ VerifyInputs
    \/ CalculateSamplingRate
    \/ IdentifyBlinkCandidates
    \/ IdentifyGazeEventCandidates
    \/ SetShortChunksAsUndefined
    \/ MergeProximalChunks
    \/ Return

Spec == Init /\ [][Next]_vars

\* ===================================================================
\* Specification SpecChunks: the run-length utilities called directly on a
\* label array, as the unit tests call them on a detector whose _sr was set.
\* ===================================================================
\* labels the utilities are exercised with
UtilLabels == {UNDEFINED, FIXATION, SACCADE}

\* sampling rates a detector may hold: unset (NaN), 100, 250, 500, 600 Hz
\* (minimum lengths of 0, 1, 2 and 3 samples)
UtilRates == {NaNRate, <<100, 1>>, <<250, 1>>, <<500, 1>>, <<600, 1>>}

\* the merge scenario: 20 FIXATION, 3 samples of another label, 20 FIXATION,
\* on a 1000 Hz detector (a minimum of 5 samples)
MergeScenario(middle) == [k \in 1..43 |-> IF k - 1 \in 20..22 THEN middle ELSE FIXATION]

LabelArrays(maxLen, labels) == UNION {[1..n -> labels] : n \in 0..maxLen}

PipeIdle ==
    /\ det = [kind |-> "Engbert", missing_value |-> NaN, param |-> 2,
              dispersion_threshold_pixels |-> 0]
    /\ t = <<>>
    /\ x = <<>>
    /\ y = <<>>
    /\ expand_blink_by_ms = 0
    /\ InitCall

InitChunks ==
    /\ \/ /\ u_arr \in LabelArrays(MaxArrLen, UtilLabels)
          /\ u_sr \in UtilRates
       \/ /\ u_arr \in {MergeScenario(SACCADE), MergeScenario(UNDEFINED)}
          /\ u_sr = <<1000, 1>>
    /\ u_allow = {}
    /\ u_op = "none"
    /\ u_out = <<>>
    /\ u_exc = "none"
    /\ u_again = <<>>
    /\ PipeIdle
    /\ BinoIdle
    /\ AggIdle
    /\ EvIdle
    /\ OthersIdle

CallGetChunkIndices ==
    /\ u_op = "none"
    /\ u_op' = "get_chunk_indices"
    /\ u_out' = get_chunk_indices(u_arr)
    /\ UNCHANGED <<u_arr, u_sr, u_allow, u_exc, u_again>>
    /\ UNCHANGED nonUtilVars

CallSetShortChunks ==
    /\ u_op = "none"
    /\ u_op' = "set_short_chunks"
    /\ IF SetShortRaises(u_arr, u_sr)
       THEN u_exc' = "ValueError" /\ u_out' = <<>>
       ELSE u_exc' = "none" /\ u_out' = _set_short_chunks_as_undefined(u_arr, u_sr)
    /\ UNCHANGED <<u_arr, u_sr, u_allow, u_again>>
    /\ UNCHANGED nonUtilVars

CallMergeProximal ==
    /\ u_op = "none"
    /\ u_op' = "merge_proximal"
    /\ \E allow \in {{}, {SACCADE}, UtilLabels} :
          /\ u_allow' = allow
          /\ IF MergeRaises(u_arr, u_sr)
             THEN u_exc' = "ValueError" /\ u_out' = <<>>
             ELSE /\ u_exc' = "none"
                  /\ u_out' = _merge_proximal_chunks_of_identical_values(u_arr, u_sr, allow)
    /\ UNCHANGED <<u_arr, u_sr, u_again>>
    /\ UNCHANGED nonUtilVars

\* self._set_short_chunks_as_undefined(res) on the array the first call returned
CallSetShortChunksAgain ==
    /\ u_op = "set_short_chunks"
    /\ u_exc = "none"
    /\ u_op' = "set_short_chunks_twice"
    /\ u_again' = _set_short_chunks_as_undefined(u_out, u_sr)
    /\ UNCHANGED <<u_arr, u_sr, u_allow, u_out, u_exc>>
    /\ UNCHANGED nonUtilVars

NextChunks ==
    \/ CallGetChunkIndices
    \/ CallSetShortChunks
    \/ CallSetShortChunksAgain
    \/ CallMergeProximal

SpecChunks == InitChunks /\ [][NextChunks]_vars

\* ===================================================================
\* Specification SpecBinocular: one call of detect_candidates_binocular.
\* ===================================================================
\* detect_by arguments: the six documented values, two of them in another
\* case, and an undocumented one
DetectByValues == {"left", "right", "both", "and", "either", "or", "Both", "OR", "nearest"}

\* one eye's x-coordinates: valid and missing samples
EyeArrays == UNION {[1..n -> {0, NaN}] : n \in 0..MaxBinoLen}

\* every label
AllLabels == {UNDEFINED, FIXATION, SACCADE, PSO, SMOOTH_PURSUIT, BLINK}

InitBinocular ==
    /\ \E x_l \in EyeArrays : \E x_r \in [1..Len(x_l) -> {0, NaN}] :
       \E detect_by \in DetectByValues :
          b_args = [t |-> UniformTimes(Len(x_l), 2),
                    x_l |-> x_l, y_l |-> [k \in 1..Len(x_l) |-> 0],
                    x_r |-> x_r, y_r |-> [k \in 1..Len(x_l) |-> 0],
                    expand_blink_by_ms |-> 0, detect_by |-> detect_by]
    /\ b_left = <<>>
    /\ b_right = <<>>
    /\ b_op = "none"
    /\ b_out = <<>>
    /\ b_exc = "none"
    /\ PipeIdle
    /\ UtilIdle
    /\ AggIdle
    /\ EvIdle
    /\ OthersIdle

\* detect_candidates_binocular(t, x_l, y_l, x_r, y_r, expand_blink_by_ms,
\* detect_by).  The first statement calls self.detect_candidates_monocular with
\* the keywords x, y and expand_blink_by_ms; were the call to bind, each eye's
\* result would be some label array of that eye's length.
DetectCandidatesBinocular ==
    /\ b_op = "none"
    /\ b_op' = "done"
    /\ IF ~MonocularCallBinds(BinocularPasses)
       THEN b_exc' = "TypeError" /\ b_out' = <<>> /\ UNCHANGED <<b_left, b_right>>
       ELSE /\ b_left' \in [1..Len(b_args.x_l) -> AllLabels]
            /\ b_right' \in [1..Len(b_args.x_r) -> AllLabels]
            /\ LET r == BinocularFuse(b_left', b_right', b_args.detect_by)
               IN b_exc' = r.exc /\ b_out' = r.out
    /\ UNCHANGED b_args
    /\ UNCHANGED nonBinoVars

NextBinocular == DetectCandidatesBinocular

SpecBinocular == InitBinocular /\ [][NextBinocular]_vars


\* ===================================================================
\* Specification SpecAggregate: one call of create_gaze_events
\* ===================================================================
\* the milliseconds column of a sample table of n rows: increasing, decreasing,
\* with a NaN, with a negative first value
SampleTables(n) ==
    { UniformTimes(n, 2),
      [k \in 1..n |-> (n - k) * 2],
      [k \in 1..n |-> IF k = 1 THEN NaN ELSE (k - 1) * 2],
      [k \in 1..n |-> (k - 2) * 2] }

ViewerDistances == {60, 0, NaN}

EyeValues == {"left", "right", "LEFT", "both"}

\* the labels of the end-to-end scenarios: 50 FIXATION, without and with
\* BLINK on indices 10-14
ScenarioLabels(withGap) == [k \in 1..50 |-> IF withGap /\ k - 1 \in 10..14 THEN BLINK ELSE FIXATION]

InitAggregate ==
    /\ \/ \E n \in 0..MaxTableLen : \E labels \in [1..n -> AllLabels] :
          \E rows \in {n, n - 1} \cap Nat : \E ms \in SampleTables(rows) :
          \E vd \in ViewerDistances : \E eye \in EyeValues :
             g_args = [milliseconds |-> ms, candidates |-> labels,
                       viewer_distance |-> vd, eye |-> eye]
       \/ \E withGap \in BOOLEAN :
             g_args = [milliseconds |-> UniformTimes(50, 2), candidates |-> ScenarioLabels(withGap),
                       viewer_distance |-> 60, eye |-> "left"]
    /\ g_op = "call"
    /\ g_out = <<>>
    /\ g_exc = "none"
    /\ g_warned = <<>>
    /\ PipeIdle
    /\ UtilIdle
    /\ BinoIdle
    /\ EvIdle
    /\ OthersIdle

\* events = create_gaze_events(gaze_data, candidates, viewer_distance, eye)
CreateGazeEvents ==
    /\ g_op = "call"
    /\ LET r == create_gaze_events(g_args.milliseconds, g_args.candidates,
                                   g_args.viewer_distance, g_args.eye)
       IN  /\ g_out' = r.events
           /\ g_exc' = r.exc
           /\ g_warned' = r.warned
    /\ g_op' = "done"
    /\ UNCHANGED g_args
    /\ UNCHANGED nonAggVars

NextAggregate ==
    \/ CreateGazeEvents

SpecAggregate == InitAggregate /\ [][NextAggregate]_vars


\* ===================================================================
\* Specification SpecEvents: events are constructed and the duration limits
\* of the event classes are set, in any order
\* ===================================================================
EventClasses == {"BaseEvent", "BaseGazeEvent", "BlinkEvent", "FixationEvent", "SaccadeEvent"}

\* timestamps handed to a constructor: increasing, decreasing, one sample,
\* with a NaN, with an infinite value, with a negative value
EventTimestamps == { <<0, 10>>, <<10, 0>>, <<0>>, <<0, NaN>>, <<0, Inf>>, <<-2, 0>> }

\* values handed to set_min_duration and to set_max_duration
MinDurations == {200}
MaxDurations == {8}

InitEvents ==
    /\ EvIdle
    /\ PipeIdle
    /\ UtilIdle
    /\ BinoIdle
    /\ AggIdle
    /\ OthersIdle

\* FixationEvent(...), SaccadeEvent(...) or BlinkEvent(timestamps=...), reached
\* through _create_event_raw
ConstructEvent ==
    /\ e_calls < MaxOps
    /\ \E event_type \in {FIXATION, SACCADE, BLINK} : \E timestamps \in EventTimestamps :
       \E viewer_distance \in IF event_type = BLINK THEN {60} ELSE {60, 0} :
          LET r == _create_event_raw(event_type, timestamps, Len(timestamps), viewer_distance)
          IN  /\ e_op' = "construct"
              /\ e_arg' = [event_type |-> event_type, timestamps |-> timestamps,
                           viewer_distance |-> viewer_distance]
              /\ e_exc' = r.exc
              /\ events' = IF r.exc = "none" THEN Append(events, r.event) ELSE events
    /\ e_calls' = e_calls + 1
    /\ UNCHANGED <<cls_min, cls_max>>
    /\ UNCHANGED nonEvVars

\* cls.set_min_duration(min_duration)
SetMinDuration ==
    /\ e_calls < MaxOps
    /\ \E cls \in EventClasses : \E min_duration \in MinDurations :
          /\ cls_min' = SetClassAttr(cls_min, cls, min_duration)
          /\ e_arg' = [cls |-> cls, value |-> min_duration]
    /\ e_op' = "set_min_duration"
    /\ e_exc' = "none"
    /\ e_calls' = e_calls + 1
    /\ UNCHANGED <<cls_max, events>>
    /\ UNCHANGED nonEvVars

\* cls.set_max_duration(max_duration)
SetMaxDuration ==
    /\ e_calls < MaxOps
    /\ \E cls \in EventClasses : \E max_duration \in MaxDurations :
          /\ cls_max' = SetClassAttr(cls_max, cls, max_duration)
          /\ e_arg' = [cls |-> cls, value |-> max_duration]
    /\ e_op' = "set_max_duration"
    /\ e_exc' = "none"
    /\ e_calls' = e_calls + 1
    /\ UNCHANGED <<cls_min, events>>
    /\ UNCHANGED nonEvVars

NextEvents ==
    \/ ConstructEvent
    \/ SetMinDuration
    \/ SetMaxDuration

SpecEvents == InitEvents /\ [][NextEvents]_vars


\* ===================================================================
\* Specification SpecAzimuth: one call of calculate_azimuth
\* ===================================================================
\* the corners of a unit square and a point with a NaN coordinate
AzimuthPoints == ({0, 1} \X {0, 1}) \cup {<<NaN, 0>>}

ZeroDirections == {"E", "W", "S", "N", "s", "Q"}

InitAzimuth ==
    /\ \E p1 \in AzimuthPoints : \E p2 \in AzimuthPoints :
       \E zero_direction \in ZeroDirections : \E use_radians \in BOOLEAN :
          f_args = [p1 |-> p1, p2 |-> p2, zero_direction |-> zero_direction,
                    use_radians |-> use_radians]
    /\ f_op = "call"
    /\ f_out = <<>>
    /\ f_exc = "none"
    /\ PipeIdle
    /\ UtilIdle
    /\ BinoIdle
    /\ AggIdle
    /\ EvIdle
    /\ IdtIdle
    /\ NhIdle
    /\ ConcIdle

\* angle = calculate_azimuth(p1, p2, zero_direction, use_radians)
CallCalculateAzimuth ==
    /\ f_op = "call"
    /\ LET r == calculate_azimuth(f_args.p1, f_args.p2, f_args.zero_direction, f_args.use_radians)
       IN  /\ f_out' = r.angle
           /\ f_exc' = r.exc
    /\ f_op' = "done"
    /\ UNCHANGED f_args
    /\ UNCHANGED nonFnVars

NextAzimuth ==
    \/ CallCalculateAzimuth

SpecAzimuth == InitAzimuth /\ [][NextAzimuth]_vars


\* ===================================================================
\* Specification SpecVelocity: one call of
\* EngbertDetector._calculate_axial_velocity
\* ===================================================================
\* c, c + 1, c + 2, ...
UnitRamp(n, c) == [k \in 1..n |-> c + k - 1]

VelocityArrays ==
    UNION {[1..n -> {0, 1, 3, NaN}] : n \in 0..MaxVelLen}
        \cup {UnitRamp(n, c) : n \in 5..(MaxVelLen + 1), c \in {0, 1}}

\* 500 Hz, 2000 / 3 Hz and a sampling rate that was never calculated
VelocityRates == {<<500, 1>>, <<2000, 3>>, NaNRate}

InitVelocity ==
    /\ \E arr \in VelocityArrays : \E ws \in 1..3 : \E rate \in VelocityRates :
          f_args = [arr |-> arr, ws |-> ws, rate |-> rate]
    /\ f_op = "call"
    /\ f_out = <<>>
    /\ f_exc = "none"
    /\ PipeIdle
    /\ UtilIdle
    /\ BinoIdle
    /\ AggIdle
    /\ EvIdle
    /\ IdtIdle
    /\ NhIdle
    /\ ConcIdle

\* velocities = self._calculate_axial_velocity(arr)
CallCalculateAxialVelocity ==
    /\ f_op = "call"
    /\ LET r == ScaledAxialVelocity(f_args.arr, f_args.ws, f_args.rate)
       IN  /\ f_out' = r.velocities
           /\ f_exc' = r.exc
    /\ f_op' = "done"
    /\ UNCHANGED f_args
    /\ UNCHANGED nonFnVars

NextVelocity ==
    \/ CallCalculateAxialVelocity

SpecVelocity == InitVelocity /\ [][NextVelocity]_vars


\* ===================================================================
\* Specification SpecIDT: IDTDetector._identify_gaze_event_candidates,
\* one step per iteration of its while-loop
\* ===================================================================
\* gaze samples <<x, y>>; the last one is a sample marked as missing
IdtPoints == {<<0, 0>>, <<1, 1>>, <<NaN, NaN>>}

\* sequences of up to MaxIdtLen gaze samples
IdtInputs == UNION {[1..n -> IdtPoints] : n \in 0..MaxIdtLen}

\* window_duration (ms) and self._sr: 4 ms at 500, 250 and 50 Hz (window
\* sizes 2, 1 and 0), 6 ms at 500 and 250 Hz (3, and 1.5 rounded to 2)
IdtConfigs ==
    {<<4, <<2000, 4>>>>, <<4, <<2000, 8>>>>, <<4, <<2000, 40>>>>, <<6, <<2000, 4>>>>, <<6, <<2000, 8>>>>}

\* self._dispersion_threshold_pixels: the dispersion of two samples at
\* different positions, and a larger one
IdtThresholds == {2, 3}

InitIDT ==
    /\ \E points \in IdtInputs : \E config \in IdtConfigs : \E threshold \in IdtThresholds :
          i_args = [x |-> [k \in 1..Len(points) |-> points[k][1]],
                    y |-> [k \in 1..Len(points) |-> points[k][2]],
                    candidates |-> [k \in 1..Len(points) |->
                                       IF points[k] = <<NaN, NaN>> THEN BLINK ELSE UNDEFINED],
                    window_duration |-> config[1],
                    sr |-> config[2],
                    threshold |-> threshold]
    /\ i_candidates = <<>>
    /\ i_start = 0
    /\ i_end = 0
    /\ i_flag = FALSE
    /\ i_pc = "setup"
    /\ i_exc = "none"
    /\ i_committed = <<>>
    /\ PipeIdle
    /\ UtilIdle
    /\ BinoIdle
    /\ AggIdle
    /\ EvIdle
    /\ FnIdle
    /\ NhIdle
    /\ ConcIdle

\* window_size of the call in progress
IdtWindowSizeOfCall == IDTWindowSize(i_args.window_duration, i_args.sr)

\* lines 25-36: copy of the candidates, first window, length check
IDTSetup ==
    /\ i_pc = "setup"
    /\ IF IdtWindowSizeOfCall - 1 >= Len(i_args.x)
       THEN /\ i_exc' = "ValueError"
            /\ i_pc' = "done"
            /\ UNCHANGED <<i_candidates, i_start, i_end, i_flag>>
       ELSE /\ i_candidates' = i_args.candidates
            /\ i_start' = 0
            /\ i_end' = IdtWindowSizeOfCall - 1
            /\ i_flag' = FALSE
            /\ i_pc' = "loop"
            /\ i_exc' = "none"
    /\ UNCHANGED <<i_args, i_committed>>
    /\ UNCHANGED nonIdtVars

\* lines 37-56: one iteration of while window_end_idx < num_samples
IDTIterate ==
    /\ i_pc = "loop"
    /\ i_end < Len(i_args.x)
    /\ LET r == IDTIteration(i_args.x, i_args.y, i_candidates, i_start, i_end, i_flag,
                             IdtWindowSizeOfCall, i_args.threshold)
       IN  /\ i_candidates' = r.cands
           /\ i_start' = r.start
           /\ i_end' = r.end
           /\ i_flag' = r.flag
           /\ i_exc' = r.exc
           /\ i_pc' = IF r.exc = "none" THEN "loop" ELSE "done"
           /\ i_committed' = IF r.exc = "none" /\ i_flag /\ ~r.flag
                             THEN Append(i_committed, <<i_start, i_end>>)
                             ELSE i_committed
    /\ UNCHANGED i_args
    /\ UNCHANGED nonIdtVars

\* lines 58-65: the loop has ended; the last window is labelled and the
\* candidates are returned
IDTFinish ==
    /\ i_pc = "loop"
    /\ i_end >= Len(i_args.x)
    /\ i_candidates' = FillSlice(i_candidates, i_start, i_end, IF i_flag THEN FIXATION ELSE SACCADE)
    /\ i_committed' = IF i_flag THEN Append(i_committed, <<i_start, Len(i_args.x)>>) ELSE i_committed
    /\ i_pc' = "done"
    /\ UNCHANGED <<i_args, i_start, i_end, i_flag, i_exc>>
    /\ UNCHANGED nonIdtVars

NextIDT ==
    \/ IDTSetup
    \/ IDTIterate
    \/ IDTFinish

SpecIDT == InitIDT /\ [][NextIDT]_vars

\* the interpreter runs the loop to its end: a step that can be taken is taken
SpecIDTFair == SpecIDT /\ WF_vars(NextIDT)


\* ===================================================================
\* Specification SpecNH: steps 3 to 5 of
\* NHDetector._identify_gaze_event_candidates: _saccade_detection (one step
\* per velocity peak), _glissade_detection, _fixation_detection
\* ===================================================================
\* timestamps 4 ms or 20 ms apart
NhTimestamps == {UniformTimes(n, dt) : n \in 3..MaxNhLen, dt \in {4, 20}}

\* the candidates on entry: UNDEFINED, with BLINK at no sample, at the first
\* sample or at the third
NhEntryCandidates(n) ==
    {[k \in 1..n |-> IF k \in blinks THEN BLINK ELSE UNDEFINED] : blinks \in {{}, {1}, {3}}}

\* the (peak, onset, offset) triples of the velocity peaks in the order of
\* velocity_peaks_indexes: each onset lies before its peak and each offset
\* after it; peaks are strict local maxima, so two of them are not neighbours,
\* and an onset or offset found by the search loops is not another peak
NhSpanLists(n) ==
    LET Spans == {sp \in (0..(n - 1)) \X (0..(n - 1)) \X (0..(n - 1)) :
                     sp[2] < sp[1] /\ sp[1] < sp[3] /\ sp[1] >= 1 /\ sp[1] <= n - 2}
    IN {spans \in UNION {[1..c -> Spans] : c \in 0..MaxNhPeaks} :
           \A j \in 1..(Len(spans) - 1) :
              /\ spans[j][1] + 2 <= spans[j + 1][1]
              /\ spans[j][3] # spans[j + 1][1]
              /\ spans[j + 1][2] # spans[j][1]}

InitNH ==
    /\ \E timestamps \in NhTimestamps :
       \E entry \in NhEntryCandidates(Len(timestamps)) :
       \E spans \in NhSpanLists(Len(timestamps)) :
       \E min_fixation_duration \in {NH_MIN_FIXATION_DURATION, 20} :
          /\ n_args = [timestamps |-> timestamps, candidates |-> entry, spans |-> spans,
                       min_fixation_duration |-> min_fixation_duration]
          /\ n_candidates = entry
    /\ n_peak = 0
    /\ n_confirmed = {}
    /\ n_pc = "saccade"
    /\ PipeIdle
    /\ UtilIdle
    /\ BinoIdle
    /\ AggIdle
    /\ EvIdle
    /\ FnIdle
    /\ IdtIdle
    /\ ConcIdle

\* the span of a peak lasts longer than the minimum saccade duration
NhSpanConfirmed(sp) ==
    At(n_args.timestamps, sp[3]) - At(n_args.timestamps, sp[2]) > NH_MIN_SACCADE_DURATION

\* _saccade_detection: the body of the loop for the next velocity peak
NHSaccadePeak ==
    /\ n_pc = "saccade"
    /\ n_peak < Len(n_args.spans)
    /\ LET sp == n_args.spans[n_peak + 1]
       IN  /\ n_candidates' = _saccade_detection(n_candidates, n_args.timestamps, sp[2], sp[3])
           /\ n_confirmed' = IF NhSpanConfirmed(sp) THEN n_confirmed \cup {k + 1 : k \in sp[2]..sp[3]}
                             ELSE n_confirmed
    /\ n_peak' = n_peak + 1
    /\ UNCHANGED <<n_args, n_pc>>
    /\ UNCHANGED nonNhVars

\* _saccade_detection returns after the last peak
NHSaccadeReturn ==
    /\ n_pc = "saccade"
    /\ n_peak = Len(n_args.spans)
    /\ n_pc' = "glissade"
    /\ UNCHANGED <<n_args, n_candidates, n_peak, n_confirmed>>
    /\ UNCHANGED nonNhVars

\* _glissade_detection: a saccade that ends on the last sample makes
\* _find_window_end_index read timestamps[n] (IndexError); else the samples
\* after one of the saccades may become PSO
NHGlissade ==
    /\ n_pc = "glissade"
    /\ LET confirmed == {j \in 1..Len(n_args.spans) : NhSpanConfirmed(n_args.spans[j])}
       IN IF \E j \in confirmed : n_args.spans[j][3] = Len(n_args.timestamps) - 1
          THEN n_pc' = "failed" /\ n_candidates' = n_candidates
          ELSE /\ n_pc' = "fixation"
               /\ \/ n_candidates' = n_candidates
                  \/ \E j \in confirmed :
                     \E g \in NHGlissadeEnds(Len(n_args.timestamps), n_args.spans[j][3]) :
                        n_candidates' = FillSlice(n_candidates, n_args.spans[j][3] + 1, g + 1, PSO)
    /\ UNCHANGED <<n_args, n_peak, n_confirmed>>
    /\ UNCHANGED nonNhVars

\* candidates = self._fixation_detection(candidates, self._timestamps)
NHFixation ==
    /\ n_pc = "fixation"
    /\ n_candidates' = _fixation_detection(n_candidates, n_args.timestamps)
    /\ n_pc' = "done"
    /\ UNCHANGED <<n_args, n_peak, n_confirmed>>
    /\ UNCHANGED nonNhVars

NextNH ==
    \/ NHSaccadePeak
    \/ NHSaccadeReturn
    \/ NHGlissade
    \/ NHFixation

SpecNH == InitNH /\ [][NextNH]_vars


\* ===================================================================
\* Specification SpecConcurrent: two calls of detect_candidates_monocular on
\* the same detector, for two trials of different sampling rates, their
\* statements interleaved
\* ===================================================================
\* the detectors whose classification is a function of its arguments
ConcDetectors == {d \in DetectorConfigs : d.kind \in {"IVT", "IDT", "Engbert"} /\ d.missing_value = NaN /\ d.param # 2}

\* gaze samples of a trial
ConcArrays == [1..MaxConcLen -> {<<0, 0>>, <<3, 0>>}]

\* a trial of MaxConcLen samples, dt milliseconds apart
ConcTrial(points, dt) ==
    InitialCall(UniformTimes(Len(points), dt),
                [k \in 1..Len(points) |-> points[k][1]],
                [k \in 1..Len(points) |-> points[k][2]], 0)

\* the first trial is sampled at 500 Hz, the second at 250 Hz
InitConcurrent ==
    /\ c_det \in ConcDetectors
    /\ c_sr = NaNRate
    /\ \E first \in ConcArrays : \E second \in ConcArrays :
          c_call = <<ConcTrial(first, 2), ConcTrial(second, 4)>>
    /\ PipeIdle
    /\ UtilIdle
    /\ BinoIdle
    /\ AggIdle
    /\ EvIdle
    /\ FnIdle
    /\ IdtIdle
    /\ NhIdle

\* the next statement of call i
CallStatement(i) ==
    /\ c_call[i].pc # "done"
    /\ LET r == DetectStatement(c_det, c_call[i], c_sr)
       IN  /\ c_call' = [c_call EXCEPT ![i] = r.call]
           /\ c_sr' = r.sr
    /\ UNCHANGED c_det
    /\ UNCHANGED nonConcVars

FirstCallStatement == CallStatement(1)

SecondCallStatement == CallStatement(2)

NextConcurrent ==
    \/ FirstCallStatement
    \/ SecondCallStatement

SpecConcurrent == InitConcurrent /\ [][NextConcurrent]_vars

\* ===================================================================
\* Properties of detect_candidates_monocular (specification Spec)
\* ===================================================================
\* round(5 * rate / 1000) for the rate estimated in this call
MinSamples == PyRound(5 * sr[1], 1000 * sr[2])

\* sample k (1-based) of the recording is missing: x or y is the sentinel
MissingSample(k) ==
    LET IsSentinel(v) == IF det.missing_value = NaN THEN v = NaN ELSE v = det.missing_value
    IN IsSentinel(x[k]) \/ IsSentinel(y[k])

\* a..b is a maximal run of missing samples
MissingRun(a, b) ==
    /\ a <= b
    /\ \A k \in a..b : MissingSample(k)
    /\ (a = 1 \/ ~MissingSample(a - 1))
    /\ (b = Len(x) \/ ~MissingSample(b + 1))

\* a..b is a maximal run of at least MinSamples missing samples
LongMissingRun(a, b) == MissingRun(a, b) /\ b - a + 1 >= MinSamples

\* sample k lies in a long run of missing samples, or in a stretch of fewer
\* than MinSamples samples strictly between two such runs
SurvivingBlink(k) ==
    \/ \E a \in 1..k : \E b \in k..Len(x) : LongMissingRun(a, b)
    \/ \E e \in 1..(k - 1) : \E s \in (k + 1)..Len(x) :
          /\ s - e - 1 < MinSamples
          /\ \E a \in 1..e : LongMissingRun(a, e)
          /\ \E b \in s..Len(x) : LongMissingRun(s, b)

\* C1: a ValueError raised at any step of detect_candidates_monocular is
\* caught and the call returns one UNDEFINED label per input sample.
C1_CaughtFailureAllUndefined ==
    (pc = "done" /\ caught # "none") => (exc = "none" /\ result = FullUndefined(x))

\* C2: when the sampling rate cannot be estimated to a finite value (all
\* timestamps equal), the call does not raise and returns one UNDEFINED label
\* per input sample.
C2_NonFiniteRateAllUndefined ==
    (pc = "done" /\ caught # "verify" /\ Len(t) >= 2 /\ Median2(Diff(t)) = 0)
        => (exc = "none" /\ result = FullUndefined(x))

\* C3: the algorithm-specific classification step returns BLINK at every
\* index that was BLINK on entry, for each of the four algorithms.
C3_ClassificationKeepsBlinks ==
    [][(pc = "classify" /\ pc' = "suppress")
          => \A k \in 1..Len(candidates) : candidates[k] = BLINK => candidates'[k] = BLINK]_vars

\* C4: every pipeline stage hands on a label array of the input's length (or
\* fails with a ValueError that is caught), and the returned list has one
\* label per input sample.
C4_StagesKeepLength ==
    [][/\ pc \in {"blink", "classify", "suppress", "merge"}
          => (pc' \in {"classify", "suppress", "merge", "return"} /\ Len(candidates') = Len(x))
       /\ pc = "return" => Len(result') = Len(x)]_vars

\* C5: with expand_blink_by_ms > 0 and k = round(expand_blink_by_ms * rate /
\* 1000), after the blink step an index is BLINK exactly when it lies within k
\* samples, on either side, of a blink run that survived suppression and
\* merging.
C5_BlinkDilatedBothSides ==
    (pc = "classify" /\ expand_blink_by_ms > 0)
        => \A j \in 1..Len(x) :
              candidates[j] = BLINK
              <=> \E i \in 1..Len(x) :
                     /\ SurvivingBlink(i)
                     /\ i - j <= PyRound(expand_blink_by_ms * sr[1], 1000 * sr[2])
                     /\ j - i <= PyRound(expand_blink_by_ms * sr[1], 1000 * sr[2])

\* C6: with expand_blink_by_ms = 0, after the blink step a sample is BLINK
\* exactly when it lies in a maximal run of at least m = round(5 * rate / 1000)
\* missing samples or in a stretch of fewer than m samples strictly between two
\* such runs, and UNDEFINED otherwise; samples 10..14 missing in the 50-sample
\* 500 Hz recording gives BLINK on exactly 10..14.
C6_BlinkStepLabels ==
    (pc = "classify" /\ expand_blink_by_ms = 0)
        => /\ \A k \in 1..Len(x) :
                 candidates[k] = IF SurvivingBlink(k) THEN BLINK ELSE UNDEFINED
           /\ x = ScenarioX(TRUE)
                 => \A k \in 1..Len(x) :
                       candidates[k] = IF k - 1 \in 10..14 THEN BLINK ELSE UNDEFINED

\* a valid sample was labeled BLINK because it lies in a short stretch between
\* two long runs of missing samples
C6_Witness ==
    /\ pc = "classify"
    /\ expand_blink_by_ms = 0
    /\ \E k \in 1..Len(x) : ~MissingSample(k) /\ candidates[k] = BLINK

\* the blink step has labeled the scenario recording with samples 10..14 missing
C6_ScenarioReached ==
    /\ pc = "classify"
    /\ expand_blink_by_ms = 0
    /\ x = ScenarioX(TRUE)
    /\ candidates[11] = BLINK

\* ===================================================================
\* Properties of the run-length utilities (specification SpecChunks)
\* ===================================================================
\* a..b (1-based) is a maximal run of equal labels of arr
MaximalRun(arr, a, b) ==
    /\ 1 <= a /\ a <= b /\ b <= Len(arr)
    /\ \A k \in a..b : arr[k] = arr[a]
    /\ (a = 1 \/ arr[a - 1] # arr[a])
    /\ (b = Len(arr) \/ arr[b + 1] # arr[b])

RECURSIVE Concatenation(_)
Concatenation(runs) == IF runs = <<>> THEN <<>> ELSE Head(runs) \o Concatenation(Tail(runs))

\* round(5 * rate / 1000) for the detector the utility is called on
UtilMinSamples == PyRound(5 * u_sr[1], 1000 * u_sr[2])

\* C7: the runs returned by get_chunk_indices, concatenated in order, are
\* exactly 0..n-1; every run carries a single label and two adjacent runs
\* carry different labels.
C7_ChunksPartitionIndices ==
    u_op = "get_chunk_indices"
        => /\ Concatenation(u_out) = [k \in 1..Len(u_arr) |-> k - 1]
           /\ \A s \in 1..Len(u_out) : \A p, q \in 1..Len(u_out[s]) :
                 At(u_arr, u_out[s][p]) = At(u_arr, u_out[s][q])
           /\ \A s \in 1..(Len(u_out) - 1) :
                 /\ u_out[s] # <<>>
                 /\ u_out[s + 1] # <<>>
                 /\ At(u_arr, u_out[s][Len(u_out[s])]) # At(u_arr, u_out[s + 1][1])

\* get_chunk_indices has split an array into three runs or more
C7_Witness == u_op = "get_chunk_indices" /\ Len(u_out) >= 3 /\ Len(u_out[2]) >= 2

\* C8: for an empty label sequence get_chunk_indices returns an empty list.
C8_EmptyInputNoChunks ==
    (u_op = "get_chunk_indices" /\ u_arr = <<>>) => Len(u_out) = 0

\* C9: _merge_proximal_chunks_of_identical_values overwrites a chunk with its
\* neighbours' label if and only if, in the input array, the chunk is neither
\* first nor last, is shorter than the minimum, has a non-exempt label and has
\* two neighbouring chunks of identical label; every other chunk is returned
\* as it was.
C9_MergeDecidedOnInput ==
    (u_op = "merge_proximal" /\ u_exc = "none")
        => \A a \in 1..Len(u_arr) : \A b \in a..Len(u_arr) :
              MaximalRun(u_arr, a, b)
                 => \A k \in a..b :
                       u_out[k] = IF /\ a > 1
                                     /\ b < Len(u_arr)
                                     /\ b - a + 1 < UtilMinSamples
                                     /\ u_arr[a] \notin u_allow
                                     /\ u_arr[a - 1] = u_arr[b + 1]
                                  THEN u_arr[a - 1] ELSE u_arr[k]

\* a..b is a chunk of u_arr shorter than the minimum, la..a-1 and b+1..rb are
\* the chunks on its two sides, both of one label and each at least the
\* minimum long
ShortBetweenLong(la, a, b, rb) ==
    /\ MaximalRun(u_arr, a, b)
    /\ b - a + 1 < UtilMinSamples
    /\ la < a /\ MaximalRun(u_arr, la, a - 1)
    /\ b < rb /\ MaximalRun(u_arr, b + 1, rb)
    /\ a - la >= UtilMinSamples
    /\ rb - b >= UtilMinSamples
    /\ u_arr[la] = u_arr[rb]

\* C10: a chunk shorter than the minimum, of a non-exempt label, directly
\* between two chunks of one label L that are each at least the minimum long,
\* is overwritten with L, so that the three chunks become one run of L (20
\* FIXATION + 3 other + 20 FIXATION with a minimum of 5 becomes 43 FIXATION);
\* when its label is exempt it is left as it was, and an array made of these
\* three chunks is returned unchanged.
C10_ShortChunkBetweenLongMerged ==
    (u_op = "merge_proximal" /\ u_exc = "none" /\ u_sr # NaNRate)
        => /\ \A a \in 1..Len(u_arr) : \A b \in a..Len(u_arr) :
                 (MaximalRun(u_arr, a, b) /\ b - a + 1 < UtilMinSamples)
                    => \A la \in 1..(a - 1) : \A rb \in (b + 1)..Len(u_arr) :
                          ShortBetweenLong(la, a, b, rb)
                             => IF u_arr[a] \notin u_allow
                                THEN \A k \in la..rb : u_out[k] = u_arr[la]
                                ELSE /\ \A k \in a..b : u_out[k] = u_arr[k]
                                     /\ (la = 1 /\ rb = Len(u_arr)) => u_out = u_arr
           /\ \A middle \in {SACCADE, UNDEFINED} :
                 (u_arr = MergeScenario(middle) /\ u_sr = <<1000, 1>>)
                    => u_out = IF middle \in u_allow THEN u_arr
                               ELSE [k \in 1..Len(u_arr) |-> FIXATION]

\* a short non-exempt chunk between two long chunks of one label was merged
C10_Witness ==
    /\ u_op = "merge_proximal"
    /\ u_exc = "none"
    /\ u_sr # NaNRate
    /\ Len(u_arr) <= MaxArrLen
    /\ \E a \in 1..Len(u_arr) : \E b \in a..Len(u_arr) :
          /\ MaximalRun(u_arr, a, b)
          /\ u_arr[a] \notin u_allow
          /\ \E la \in 1..(a - 1) : \E rb \in (b + 1)..Len(u_arr) :
                /\ ShortBetweenLong(la, a, b, rb)
                /\ u_out # u_arr
                /\ \A k \in la..rb : u_out[k] = u_arr[la]

\* the 43-sample merge scenario came out as one run of FIXATION
C10_ScenarioReached ==
    /\ u_op = "merge_proximal"
    /\ u_arr = MergeScenario(SACCADE)
    /\ u_allow = {}
    /\ u_out = [k \in 1..Len(u_arr) |-> FIXATION]

\* C11: _set_short_chunks_as_undefined returns an array of the input's length
\* in which a sample is UNDEFINED when its chunk in the input has strictly
\* fewer than m = round(5 * rate / 1000) samples and keeps its label otherwise;
\* a chunk of exactly m samples is kept and the empty array comes back empty.
C11_ShortChunksUndefined ==
    (u_op = "set_short_chunks" /\ u_sr # NaNRate)
        => /\ u_exc = "none"
           /\ Len(u_out) = Len(u_arr)
           /\ \A a \in 1..Len(u_arr) : \A b \in a..Len(u_arr) :
                 MaximalRun(u_arr, a, b)
                    => \A k \in a..b :
                          u_out[k] = IF b - a + 1 < UtilMinSamples THEN UNDEFINED ELSE u_arr[k]
           /\ u_arr = <<>> => u_out = <<>>

\* one chunk of exactly the minimum length was kept and a shorter one of
\* another label became UNDEFINED
C11_Witness ==
    /\ u_op = "set_short_chunks"
    /\ u_sr # NaNRate
    /\ \E a \in 1..Len(u_arr) : \E b \in a..Len(u_arr) :
          /\ MaximalRun(u_arr, a, b)
          /\ b - a + 1 = UtilMinSamples
          /\ u_arr[a] # UNDEFINED
          /\ u_out[a] = u_arr[a]
    /\ \E k \in 1..Len(u_arr) : u_arr[k] # UNDEFINED /\ u_out[k] = UNDEFINED

\* C12: short-chunk suppression is idempotent: applied to its own output, with
\* the same sampling rate, it returns that output unchanged.
C12_SuppressionIdempotent ==
    u_op = "set_short_chunks_twice" => u_again = u_out

\* the first application changed the array and the second one did not
C12_Witness ==
    /\ u_op = "set_short_chunks_twice"
    /\ u_out # u_arr
    /\ u_again = u_out

\* ===================================================================
\* Properties of detect_candidates_binocular (specification SpecBinocular)
\* ===================================================================
\* C13: with detect_by 'both' or 'and' the call runs monocular detection on
\* each eye and returns, index by index, the common label where the two eyes
\* agree and UNDEFINED where they differ.
C13_BothKeepsAgreement ==
    (b_op = "done" /\ Lower(b_args.detect_by) \in {"both", "and"})
        => /\ b_exc = "none"
           /\ Len(b_left) = Len(b_args.x_l)
           /\ Len(b_right) = Len(b_args.x_r)
           /\ b_out = [i \in 1..Len(b_args.x_l) |->
                          IF b_left[i] = b_right[i] THEN b_left[i] ELSE UNDEFINED]

\* C14: with detect_by 'either' or 'or' the call returns, index by index, the
\* left eye's label when it is not UNDEFINED and the right eye's otherwise.
C14_EitherPrefersLeft ==
    (b_op = "done" /\ Lower(b_args.detect_by) \in {"either", "or"})
        => /\ b_exc = "none"
           /\ Len(b_left) = Len(b_args.x_l)
           /\ Len(b_right) = Len(b_args.x_r)
           /\ b_out = [i \in 1..Len(b_args.x_l) |->
                          IF b_left[i] # UNDEFINED THEN b_left[i] ELSE b_right[i]]

\* C15: a detect_by value other than left, right, both, and, either, or
\* (case-insensitively) fails with ValueError and returns nothing; a recognised
\* value returns a label sequence of the input's length.
C15_DetectByValidated ==
    b_op = "done"
        => IF Lower(b_args.detect_by) \in {"left", "right", "both", "and", "either", "or"}
           THEN b_exc = "none" /\ Len(b_out) = Len(b_args.x_l)
           ELSE b_exc = "ValueError" /\ b_out = <<>>


\* ===================================================================
\* End-to-end scenarios (specification Spec, I-VT on 50 samples at 500 Hz)
\* ===================================================================
\* the events create_gaze_events builds from the labels returned for the
\* scenario recording, for the left eye at a viewer distance of 60 cm
ScenarioAggregation == create_gaze_events(t, result, 60, "left")

\* C16: for timestamps 0, 2, ..., 98 with constant x and y, I-VT detection
\* returns FIXATION for all 50 indices, and create_gaze_events on that result
\* yields exactly one event, a Fixation with start 0, end 98, duration 98 ms.
C16_ConstantGazeOneFixation ==
    (pc = "done" /\ det.kind = "IVT" /\ x = ScenarioX(FALSE) /\ expand_blink_by_ms = 0)
        => /\ exc = "none"
           /\ result = [k \in 1..50 |-> FIXATION]
           /\ ScenarioAggregation.exc = "none"
           /\ Len(ScenarioAggregation.events) = 1
           /\ LET event == ScenarioAggregation.events[1]
              IN  /\ event.cls = "FixationEvent"
                  /\ start_time(event) = 0
                  /\ end_time(event) = 98
                  /\ duration(event) = 98

\* C17: with NaN at indices 10-14 of the same recording, I-VT detection
\* returns FIXATION on 0-9, BLINK on 10-14, FIXATION on 15-49, and
\* create_gaze_events on that result produces exactly three events in this
\* order: Fixation(0-9), Blink(10-14), Fixation(15-49).
C17_GapGivesFixationBlinkFixation ==
    (pc = "done" /\ det.kind = "IVT" /\ x = ScenarioX(TRUE) /\ expand_blink_by_ms = 0)
        => /\ exc = "none"
           /\ result = [k \in 1..50 |-> IF k - 1 \in 10..14 THEN BLINK ELSE FIXATION]
           /\ ScenarioAggregation.exc = "none"
           /\ ScenarioAggregation.events =
                 << Event("FixationEvent", SubSeq(t, 1, 10)),
                    Event("BlinkEvent", SubSeq(t, 11, 15)),
                    Event("FixationEvent", SubSeq(t, 16, 50)) >>


\* ===================================================================
\* Properties of create_gaze_events (specification SpecAggregate)
\* ===================================================================
\* the timestamps of rows a..b (1-based) of the sample table
ChunkTimestamps(a, b) == SubSeq(g_args.milliseconds, a, b)

\* the event class of a label, "none" for a label without one
EventClassOf(label) ==
    CASE label = FIXATION -> "FixationEvent"
      [] label = SACCADE -> "SaccadeEvent"
      [] label = BLINK -> "BlinkEvent"
      [] OTHER -> "none"

\* an event cannot be constructed from the maximal run a..b: too few samples,
\* a non-finite or negative timestamp, no matching event type, or (for gaze
\* events) an unusable viewer distance
ChunkFails(a, b) ==
    \/ EventClassOf(g_args.candidates[a]) = "none"
    \/ b - a + 1 < 2
    \/ \E k \in a..b : g_args.milliseconds[k] \in {NaN, Inf} \/ g_args.milliseconds[k] < 0
    \/ /\ g_args.candidates[a] \in {FIXATION, SACCADE}
       /\ (g_args.viewer_distance \in {NaN, Inf} \/ g_args.viewer_distance <= 0)

\* the maximal runs of labels other than UNDEFINED, as pairs <<a, b>>
EventRuns ==
    { ab \in (1..Len(g_args.candidates)) \X (1..Len(g_args.candidates)) :
         /\ MaximalRun(g_args.candidates, ab[1], ab[2])
         /\ g_args.candidates[ab[1]] # UNDEFINED }

\* C18: for every label sequence and every sample table of the same length,
\* with eye 'left' or 'right', create_gaze_events returns a list without
\* raising: a chunk whose event construction fails is skipped with a warning
\* and every other non-UNDEFINED chunk yields its event.
C18_AggregationAlwaysCompletes ==
    (/\ g_op = "done"
     /\ Lower(g_args.eye) \in {"left", "right"}
     /\ Len(g_args.milliseconds) = Len(g_args.candidates))
        => /\ g_exc = "none"
           /\ \A ab \in EventRuns :
                 IF ChunkFails(ab[1], ab[2])
                 THEN \E w \in 1..Len(g_warned) : g_warned[w] = ab[1] - 1
                 ELSE \E e \in 1..Len(g_out) :
                         g_out[e] = Event(EventClassOf(g_args.candidates[ab[1]]),
                                          ChunkTimestamps(ab[1], ab[2]))
           /\ Len(g_out) = Cardinality({ab \in EventRuns : ~ChunkFails(ab[1], ab[2])})
           /\ Len(g_warned) = Cardinality({ab \in EventRuns : ChunkFails(ab[1], ab[2])})

\* the same statement for label sequences that are not empty
NonEmptyAggregationCompletes ==
    g_args.candidates # <<>> => C18_AggregationAlwaysCompletes


\* ===================================================================
\* Properties of the event objects (specification SpecEvents)
\* ===================================================================
\* C19: every event whose construction succeeds covers at least 2 samples
\* with only finite, non-negative timestamps and satisfies start_time <=
\* end_time and duration = end_time - start_time >= 0; construction with fewer
\* than 2 samples, a NaN or infinite timestamp or a negative timestamp fails
\* with ValueError.
C19_EventInvariants ==
    /\ \A i \in 1..Len(events) :
          /\ Len(events[i].timestamps) >= 2
          /\ \A k \in 1..Len(events[i].timestamps) :
                events[i].timestamps[k] \notin {NaN, Inf} /\ events[i].timestamps[k] >= 0
          /\ start_time(events[i]) <= end_time(events[i])
          /\ duration(events[i]) = end_time(events[i]) - start_time(events[i])
          /\ duration(events[i]) >= 0
    /\ (/\ e_op = "construct"
        /\ \/ Len(e_arg.timestamps) < 2
           \/ \E k \in 1..Len(e_arg.timestamps) :
                 e_arg.timestamps[k] \in {NaN, Inf} \/ e_arg.timestamps[k] < 0)
          => e_exc = "ValueError"

\* what can be read from an event: start_time, end_time, duration, is_outlier
\* and get_outlier_reasons()
Readings(event) ==
    [start_time |-> start_time(event),
     end_time |-> end_time(event),
     duration |-> duration(event),
     is_outlier |-> is_outlier(event, cls_min, cls_max),
     outlier_reasons |-> get_outlier_reasons(event, cls_min, cls_max)]

\* C20: a constructed event is never mutated: its start_time, end_time,
\* duration, is_outlier flag and outlier reasons read the same after every
\* following operation (set_min_duration or set_max_duration on any event
\* class, construction of other events).
C20_EventsNeverMutated ==
    [][\A i \in 1..Len(events) : Readings(events[i])' = Readings(events[i])]_vars


\* ===================================================================
\* Further properties of detect_candidates_monocular (specification Spec)
\* ===================================================================
\* C24: the Engbert detector rejects an input of fewer than
\* 2 * derivation_window_size samples with a ValueError raised by input
\* verification, before the sampling rate is estimated, blinks are detected or
\* velocities are computed.
C24_EngbertRejectsShortInput ==
    (det.kind = "Engbert" /\ Len(x) < 2 * det.param /\ pc \notin {"start", "verify"})
        => /\ caught = "verify"
           /\ pc \in {"return", "done"}
           /\ exc = "none"
           /\ sr = NaNRate
           /\ candidates = FullUndefined(x)
           /\ xm = x
           /\ ym = y

\* a recording of 2 * derivation_window_size - 1 samples, one of them missing,
\* was rejected
C24_Witness ==
    /\ pc = "done"
    /\ det.kind = "Engbert"
    /\ Len(x) = 2 * det.param - 1
    /\ Len(t) = Len(x)
    /\ \E k \in 1..Len(x) : MissingSample(k)
    /\ caught = "verify"

\* C29: in the labels returned by a call that completes without failure,
\* every maximal run of a label other than UNDEFINED has at least
\* round(5 * rate / 1000) samples.
C29_ReturnedRunsNotShort ==
    (pc = "done" /\ exc = "none" /\ caught = "none")
        => \A a \in 1..Len(result) : \A b \in a..Len(result) :
              (MaximalRun(result, a, b) /\ result[a] # UNDEFINED) => b - a + 1 >= MinSamples

\* a call at a rate with a minimum of 2 samples returned a run of a label next
\* to samples the post-processing left UNDEFINED
C29_Witness ==
    /\ pc = "done"
    /\ exc = "none"
    /\ caught = "none"
    /\ MinSamples >= 2
    /\ \E k \in 1..Len(result) : result[k] \notin {UNDEFINED, BLINK}
    /\ \E k \in 1..Len(result) : result[k] = UNDEFINED /\ ~MissingSample(k)


\* ===================================================================
\* Properties of calculate_azimuth (specification SpecAzimuth)
\* ===================================================================
\* C23: calculate_azimuth(p, p) with the same finite point as start and end
\* returns exactly 0 for every zero_direction in E, W, S, N, in degrees and in
\* radians, and for all finite points the result lies in [0, 360) (in
\* [0, 2 pi), which is 0..7 eighths of a turn).
C23_SamePointAzimuthZero ==
    (/\ f_op = "done"
     /\ Upper(f_args.zero_direction) \in {"E", "W", "S", "N"}
     /\ _is_valid_pixel(f_args.p1)
     /\ _is_valid_pixel(f_args.p2))
        => /\ f_exc = "none"
           /\ f_out # NaN
           /\ f_args.p1 = f_args.p2 => f_out = 0
           /\ 0 <= f_out
           /\ IF f_args.use_radians THEN f_out < 8 ELSE f_out < 360


\* ===================================================================
\* Properties of _calculate_axial_velocity (specification SpecVelocity)
\* ===================================================================
\* the sum of arr over the 0-based indices S, none of them NaN
RECURSIVE SumAt(_, _)
SumAt(arr, S) ==
    IF S = {} THEN 0
    ELSE LET i == CHOOSE j \in S : TRUE IN At(arr, i) + SumAt(arr, S \ {i})

\* equality of two rationals <<numerator, denominator>>
RatEq(a, b) == a[1] * b[2] = b[1] * a[2]

\* C26: with half-window ws on n samples, velocity[t] is NaN exactly when
\* t < ws, or t >= n - ws, or one of arr[t-ws..t-1], arr[t+1..t+ws] is NaN (a
\* NaN at t itself does not matter); otherwise it is
\* (sum after - sum before) * rate / (2 * (ws + 1)). A constant signal gives 0
\* and a unit ramp with ws = 2 gives exactly the rate.
C26_AxialVelocity ==
    (f_op = "done" /\ f_exc = "none")
        => LET arr == f_args.arr
               ws == f_args.ws
               n == Len(arr)
               Before(tt) == (tt - ws)..(tt - 1)
               After(tt) == (tt + 1)..(tt + ws)
               Inner == {tt \in 0..(n - 1) : tt >= ws /\ tt < n - ws}
           IN /\ Len(f_out) = n
              /\ \A tt \in 0..(n - 1) :
                    IF tt \notin Inner THEN At(f_out, tt) = NaNRatio
                    ELSE IF \E j \in Before(tt) \cup After(tt) : At(arr, j) = NaN
                    THEN At(f_out, tt) = NaNRatio
                    ELSE /\ At(f_out, tt) # NaNRatio
                         /\ RatEq(At(f_out, tt),
                                  <<(SumAt(arr, After(tt)) - SumAt(arr, Before(tt))) * f_args.rate[1],
                                    2 * (ws + 1) * f_args.rate[2]>>)
              /\ (\E c \in {0, 1, 3} : \A k \in 1..n : arr[k] = c)
                    => \A tt \in Inner : At(f_out, tt) # NaNRatio /\ At(f_out, tt)[1] = 0
              /\ (ws = 2 /\ \E c \in {0, 1} : arr = UnitRamp(n, c))
                    => \A tt \in Inner : At(f_out, tt) # NaNRatio /\ RatEq(At(f_out, tt), f_args.rate)

\* a velocity other than 0 was computed at a sample that is itself NaN, next
\* to a sample whose velocity is NaN because of it
C26_Witness ==
    /\ f_op = "done"
    /\ f_exc = "none"
    /\ f_args.rate = <<500, 1>>
    /\ \E tt \in 1..(Len(f_args.arr) - 1) :
          /\ At(f_args.arr, tt) = NaN
          /\ At(f_out, tt) # NaNRatio
          /\ At(f_out, tt)[1] # 0
          /\ At(f_out, tt - 1) = NaNRatio
          /\ tt - 1 >= f_args.ws


\* ===================================================================
\* Properties of IDTDetector._identify_gaze_event_candidates
\* (specifications SpecIDT and SpecIDTFair)
\* ===================================================================
\* the step-wise run returns what the function computes in one piece
IdtStepsAgreeWithLoop ==
    i_pc = "done"
        => LET r == IDT_identify_gaze_event_candidates(i_args.x, i_args.y, i_args.candidates,
                                                       i_args.sr, i_args.window_duration, i_args.threshold)
           IN /\ r.exc = i_exc
              /\ i_exc = "none" => r.cands = i_candidates

\* the classification has returned its labels
IdtReturned == i_pc = "done" /\ i_exc = "none"

\* samples a..b (1-based) are the same gaze position
IdenticalRun(a, b) ==
    \A k \in a..b : i_args.x[k] = i_args.x[a] /\ i_args.y[k] = i_args.y[a]


\* no sample of the input is missing
IdtNoMissing == \A k \in 1..Len(i_args.x) : i_args.x[k] # NaN /\ i_args.y[k] # NaN

\* C22: in a sequence without missing samples, every sample of a run of at
\* least window-size consecutive identical (x, y) samples is labelled
\* FIXATION by the I-DT classification, for every positive dispersion
\* threshold, wherever the run lies (start, middle or end of the sequence).
C22_IdenticalRunIsFixation ==
    (IdtReturned /\ IdtNoMissing)
        => \A a \in 1..Len(i_args.x) : \A b \in a..Len(i_args.x) :
              (b - a + 1 >= IdtWindowSizeOfCall /\ IdenticalRun(a, b))
                  => \A k \in a..b : i_candidates[k] = FIXATION

\* a run of exactly window-size identical samples strictly inside the
\* sequence, between samples at other positions, one of them labelled SACCADE
C22_Witness ==
    /\ IdtReturned
    /\ IdtNoMissing
    /\ IdtWindowSizeOfCall = 3
    /\ \E a \in 2..(Len(i_args.x) - 3) :
          /\ IdenticalRun(a, a + 2)
          /\ ~IdenticalRun(a - 1, a)
          /\ ~IdenticalRun(a + 2, a + 3)
          /\ i_candidates[a] = FIXATION
    /\ \E k \in 1..Len(i_args.x) : i_candidates[k] = SACCADE

\* the values of arr at the 0-based indices lo..hi-1 that are not NaN
FiniteValues(arr, lo, hi) == {At(arr, j) : j \in {i \in lo..(hi - 1) : At(arr, i) # NaN}}

SetMax(S) == CHOOSE v \in S : \A w \in S : w <= v

SetMin(S) == CHOOSE v \in S : \A w \in S : v <= w

\* (max_x - min_x) + (max_y - min_y) over the samples lo..hi-1
DispersionOver(lo, hi) ==
    (SetMax(FiniteValues(i_args.x, lo, hi)) - SetMin(FiniteValues(i_args.x, lo, hi)))
        + (SetMax(FiniteValues(i_args.y, lo, hi)) - SetMin(FiniteValues(i_args.y, lo, hi)))

\* C27: in the array returned by the I-DT classification every maximal
\* FIXATION run has at least window_size = round(window_duration * rate / 1000)
\* samples, and every window committed as FIXATION had a dispersion
\* (max_x - min_x) + (max_y - min_y) strictly below the threshold over the
\* committed samples.
C27_FixationRunsAndDispersion ==
    IdtReturned
        => /\ \A a \in 1..Len(i_candidates) : \A b \in a..Len(i_candidates) :
                 (MaximalRun(i_candidates, a, b) /\ i_candidates[a] = FIXATION)
                     => b - a + 1 >= IdtWindowSizeOfCall
           /\ \A w \in 1..Len(i_committed) :
                 /\ i_committed[w][2] - i_committed[w][1] >= IdtWindowSizeOfCall
                 /\ FiniteValues(i_args.x, i_committed[w][1], i_committed[w][2]) # {}
                 /\ FiniteValues(i_args.y, i_committed[w][1], i_committed[w][2]) # {}
                 /\ DispersionOver(i_committed[w][1], i_committed[w][2]) < i_args.threshold

\* a window over samples at different positions, with a missing sample between
\* them, was committed as FIXATION after a sample labelled SACCADE
C27_Witness ==
    /\ IdtReturned
    /\ IdtWindowSizeOfCall = 2
    /\ \E w \in 1..Len(i_committed) :
          /\ DispersionOver(i_committed[w][1], i_committed[w][2]) > 0
          /\ \E j \in i_committed[w][1]..(i_committed[w][2] - 1) : At(i_args.x, j) = NaN
    /\ \E k \in 1..Len(i_candidates) : i_candidates[k] = SACCADE

\* the input has n >= window_size >= 1 samples
IdtLoopPrecondition == IdtWindowSizeOfCall >= 1 /\ Len(i_args.x) >= IdtWindowSizeOfCall

\* an iteration of the loop advances the left or the right edge of the window
\* and moves neither backwards, and the loop is left once the right edge has
\* reached n
IdtIterationAdvances ==
    (IdtLoopPrecondition /\ i_pc = "loop")
        => IF i_end < Len(i_args.x)
           THEN /\ i_pc' = "loop"
                /\ i_exc' = "none"
                /\ i_start' >= i_start
                /\ i_end' >= i_end
                /\ i_start' > i_start \/ i_end' > i_end
           ELSE i_pc' = "done"

\* C28: the I-DT window loop terminates for every input of n >= window_size
\* >= 1 samples: every iteration strictly advances the left or the right edge,
\* neither moves backwards, the loop ends once the right edge reaches n, and
\* then every index 0..n-1 is labelled FIXATION or SACCADE.
C28_WindowLoopTerminates ==
    /\ [][IdtIterationAdvances]_vars
    /\ <>(IdtLoopPrecondition => i_pc = "done")
    /\ []((IdtLoopPrecondition /\ i_pc = "done")
            => /\ i_exc = "none"
               /\ i_end >= Len(i_args.x)
               /\ \A k \in 1..Len(i_args.x) : i_candidates[k] \in {FIXATION, SACCADE})

\* the loop has ended after committing a fixation and labelling a saccade, on
\* an input that had a sample marked BLINK
C28_Witness ==
    /\ i_pc = "done"
    /\ IdtLoopPrecondition
    /\ Len(i_committed) >= 1
    /\ \E k \in 1..Len(i_args.x) : i_candidates[k] = SACCADE
    /\ \E k \in 1..Len(i_args.x) : i_args.candidates[k] = BLINK


\* ===================================================================
\* Properties of the NH detector's saccade and fixation detection
\* (specification SpecNH)
\* ===================================================================
\* the fixation detection relabels every maximal run of UNDEFINED that lasts
\* longer than min_fixation_duration, and no other
NhFixationRelabelsLongRuns ==
    (n_pc = "fixation" /\ n_pc' = "done")
        => \A a \in 1..Len(n_candidates) : \A b \in a..Len(n_candidates) :
              (MaximalRun(n_candidates, a, b) /\ n_candidates[a] = UNDEFINED)
                  => IF n_args.timestamps[b] - n_args.timestamps[a] > n_args.min_fixation_duration
                     THEN \A k \in a..b : n_candidates'[k] = FIXATION
                     ELSE \A k \in a..b : n_candidates'[k] = UNDEFINED

\* C25: after the NH fixation detection every maximal UNDEFINED run whose
\* duration (last minus first timestamp) exceeds the min_fixation_duration
\* given at construction (default 40 ms) is relabelled FIXATION wherever it
\* lies (at the start, between events, or reaching the final sample); shorter
\* runs stay UNDEFINED.
C25_LongUndefinedRunsBecomeFixation == [][NhFixationRelabelsLongRuns]_vars

\* C30: once a span is committed as SACCADE, the handling of a later velocity
\* peak never relabels a sample of that span UNDEFINED.
C30_CommittedSaccadeKept ==
    n_pc \in {"saccade", "glissade"} => \A k \in n_confirmed : n_candidates[k] # UNDEFINED


\* ===================================================================
\* Properties of concurrent calls on one detector (specification
\* SpecConcurrent)
\* ===================================================================
RECURSIVE DetectAlone(_, _, _)
\* the call run from its position to its end with no other call on the
\* detector
DetectAlone(d, call, rate) ==
    IF call.pc = "done" THEN call
    ELSE DetectAlone(d, DetectStatement(d, call, rate).call, DetectStatement(d, call, rate).sr)

\* the single call of specification Spec returns what its statements, run one
\* after the other, return
CallAgreesWithStatements ==
    (pc = "done" /\ det.kind # "NH")
        => LET alone == DetectAlone(det, InitialCall(t, x, y, expand_blink_by_ms), NaNRate)
           IN alone.result = result /\ alone.exc = exc /\ alone.caught = caught

\* what call i returns when it runs alone on a detector of the same
\* configuration
ResultAlone(i) ==
    DetectAlone(c_det, InitialCall(c_call[i].t, c_call[i].x, c_call[i].y, c_call[i].expand_blink_by_ms),
                NaNRate)

\* C21: two concurrent detect_candidates_monocular calls on the same detector
\* instance, for two trials with different sampling rates, each return exactly
\* what they return when run alone: no interleaving lets one call read state
\* (the sampling rate, and with it the minimum chunk length and the window
\* sizes) derived by the other.
C21_ConcurrentCallsIndependent ==
    \A i \in {1, 2} :
        c_call # <<>> /\ c_call[i].pc = "done"
            => /\ c_call[i].result = ResultAlone(i).result
               /\ c_call[i].exc = ResultAlone(i).exc
               /\ c_call[i].caught = ResultAlone(i).caught

====
